---- MODULE Spec2Model ----
(***************************************************************************)
(* The tariff dashboard client: each React component is a state machine    *)
(* over its useState fields, with one action per handler and one action    *)
(* per backend response that resumes a handler after an await.             *)
(*                                                                         *)
(* Every component keeps its own state, so a behaviour follows the one     *)
(* component named by `mounted`; the others stay as constructed.           *)
(*                                                                         *)
(* Numbers are JavaScript numbers read by Number.parseFloat.  A number is  *)
(* the tuple <<n>> with n counted in hundredths, and NaN is the empty      *)
(* tuple, so that NaN compares unequal to, and not below, every number.    *)
(***************************************************************************)
EXTENDS Integers, Sequences, FiniteSets, TLC

VARIABLES
    mounted,    \* the component this behaviour follows
    session,    \* supabase session: its access_token
    net,        \* requests sent and not yet answered
    sim,        \* SimulatorCalculator
    calc,       \* TariffCalculatorForm
    home,       \* Home: calculationResults
    tdt,        \* TariffDefinitionsTable
    rt,         \* ResultsTable
    cmp,        \* TariffComparisonPanel
    cart,       \* ExportCartWithHistory
    adm,        \* AdminDashboard
    trd         \* TariffTrendsVisualization

vars == <<mounted, session, net, sim, calc, home, tdt, rt, cmp, cart, adm, trd>>

----------------------------------------------------------------------------
(* JavaScript values *)

Null == <<>>
Some(x) == <<x>>

NaN == <<>>
Num(n) == <<n>>
IsNaN(x) == x = NaN
Val(x) == x[1]

\* What Number.parseFloat reads in the texts a numeric input can hold
\* (hundredths): it reads the longest numeric prefix, and NaN when none.

parseFloat(s) ==
    CASE s = "-1"  -> Num(-100)
      [] s = "0"   -> Num(0)
      [] s = "1"   -> Num(100)
      [] s = "2"   -> Num(200)
      [] s = "3"   -> Num(300)
      [] s = "5"   -> Num(500)
      [] s = "10"  -> Num(1000)
      [] s = "2kg" -> Num(200)
      [] OTHER     -> NaN

\* a * b, a + b and a / 100: NaN when an operand is NaN
Mul(a, b) == IF IsNaN(a) \/ IsNaN(b) THEN NaN ELSE Num((Val(a) * Val(b)) \div 100)
Add(a, b) == IF IsNaN(a) \/ IsNaN(b) THEN NaN ELSE Num(Val(a) + Val(b))
DivHundred(a) == IF IsNaN(a) THEN NaN ELSE Num(Val(a) \div 100)

\* n.toString() of the numbers the backend's tariffs carry
toString(x) ==
    CASE x = Num(0)   -> "0"
      [] x = Num(500) -> "5"
      [] OTHER        -> "NaN"

\* a <= 0 and a < 0: false when a is NaN
LeqZero(a) == ~IsNaN(a) /\ Val(a) <= 0
LtZero(a) == ~IsNaN(a) /\ Val(a) < 0

----------------------------------------------------------------------------
(* Session and requests *)

Tokens == {"tok1"}

\* 'Authorization': token ? `Bearer ${token}` : ''
createAuthHeaders(token) == IF token # "" THEN <<"Bearer", token>> ELSE <<>>

\* fetch(url, {method, headers: createAuthHeaders(token), credentials: 'include'});
\* k is what the awaiting handler keeps in its closure
fetchWith(src, method, path, k) ==
    [src |-> src, method |-> method, path |-> path,
     Authorization |-> createAuthHeaders(session), credentials |-> "include", k |-> k]

fetch(src, method, path) == fetchWith(src, method, path, <<>>)

\* window.location.href = url: the browser navigates to the url; the client
\* sets no header and no credentials mode on that request
navigate(src, path) ==
    [src |-> src, method |-> "GET", path |-> path,
     Authorization |-> <<>>, credentials |-> "", k |-> <<>>]

----------------------------------------------------------------------------
(* SimulatorCalculator *)

SimFieldValues ==
    [product |-> {"", "Rice"}, unit |-> {"", "kg"}, exportingFrom |-> {"", "SG"},
     importingTo |-> {"", "SG", "MY"}, tariffType |-> {"percentage", "fixed"},
     tariffRate |-> {"", "abc", "-1", "0", "10"},
     quantity |-> {"", "abc", "0", "1", "2"}, customCost |-> {"", "abc", "0", "3"}]

SimInitialFormData ==
    [product |-> "", unit |-> "", exportingFrom |-> "", importingTo |-> "",
     tariffType |-> "percentage", tariffRate |-> "", quantity |-> "1", customCost |-> ""]

\* ids the backend gives: the id of the record a save created, the id of the
\* latest record of the history list, and none
SavedIds == {"", "h2"}
LatestIds == {"", "h1"}
\* `local_${Date.now()}_${Math.random()...}`
LocalId == "local"

\* the first failing check of handleSubmit, "" when all pass
SimValidationError(f) ==
    IF f.product = "" \/ f.unit = "" \/ f.exportingFrom = "" \/ f.importingTo = ""
       \/ f.tariffRate = "" \/ f.quantity = "" \/ f.customCost = ""
    THEN "Please fill in all required fields"
    ELSE IF LeqZero(parseFloat(f.quantity)) THEN "Quantity must be greater than 0"
    ELSE IF LeqZero(parseFloat(f.customCost)) THEN "Unit cost must be greater than 0"
    ELSE IF LtZero(parseFloat(f.tariffRate)) THEN "Tariff rate cannot be negative"
    ELSE ""

\* a fixed tariff charged once instead of per unit
SimTariffCostFlatFee(tariffType, productCost, tariffRate, quantity) ==
    IF tariffType = "percentage" THEN DivHundred(Mul(productCost, tariffRate))
    ELSE IF tariffType = "fixed" THEN tariffRate
    ELSE Num(0)

SimTariffCost(tariffType, productCost, tariffRate, quantity) ==
    IF tariffType = "percentage" THEN DivHundred(Mul(productCost, tariffRate))
    ELSE IF tariffType = "fixed" THEN Mul(tariffRate, quantity)
    ELSE Num(0)

\* the result handleSubmit computes from the form, before it has an id (of
\* the record's fields, the computed amounts and the id are kept)
SimCalculate(f) ==
    LET quantity == parseFloat(f.quantity)
        unitCost == parseFloat(f.customCost)
        tariffRate == parseFloat(f.tariffRate)
        productCost == Mul(unitCost, quantity)
        tariffCost == SimTariffCost(f.tariffType, productCost, tariffRate, quantity)
        totalCost == Add(productCost, tariffCost)
    IN  [productCost |-> productCost, tariffCost |-> tariffCost, totalCost |-> totalCost,
         breakdown |-> <<[type |-> "Product Cost", amount |-> productCost],
                         [type |-> "Tariff", amount |-> tariffCost]>>,
         calculationId |-> ""]

\* if (!result.calculationId) result.calculationId = `local_...`
SimEnsureId(result) ==
    IF result.calculationId = "" THEN [result EXCEPT !.calculationId = LocalId] ELSE result

SimConstructed ==
    [formData |-> SimInitialFormData, error |-> "", isLoading |-> FALSE,
     calculationResult |-> Null, pc |-> "idle", result |-> Null]

\* handleInputChange(field, value).  While a submission awaits the backend
\* the form is held still: the resumed handler reads only its own `result`,
\* so an edit made meanwhile reaches the states the same edit reaches after
\* the response.
SimHandleInputChange ==
    /\ mounted = "sim"
    /\ sim.pc = "idle"
    /\ \E field \in DOMAIN SimFieldValues : \E value \in SimFieldValues[field] :
          sim' = [sim EXCEPT !.formData[field] = value, !.error = ""]
    /\ UNCHANGED <<mounted, session, net, calc, home, tdt, rt, cmp, cart, adm, trd>>

\* handleSubmit up to its first await (the submit button is disabled while
\* isLoading)
SimHandleSubmit ==
    /\ mounted = "sim"
    /\ sim.pc = "idle"
    /\ ~sim.isLoading
    /\ LET err == SimValidationError(sim.formData) IN
       IF err # ""
       THEN /\ sim' = [sim EXCEPT !.error = err, !.isLoading = FALSE]
            /\ UNCHANGED net
       ELSE /\ sim' = [sim EXCEPT !.error = "", !.isLoading = TRUE, !.pc = "save",
                                  !.result = Some(SimCalculate(sim.formData))]
            /\ net' = net \cup {fetch("sim", "POST", "tariff/history/save")}
    /\ UNCHANGED <<mounted, session, calc, home, tdt, rt, cmp, cart, adm, trd>>

\* setCalculationResult(result) and the finally block
SimFinish(result) ==
    sim' = [sim EXCEPT !.calculationResult = Some(SimEnsureId(result)),
                       !.isLoading = FALSE, !.pc = "idle", !.result = Null]

\* the answer to POST tariff/history/save is ok:
\* result.calculationId = savedCalculation.id || savedCalculation.calculationId
SimSaveOk ==
    /\ mounted = "sim"
    /\ sim.pc = "save"
    /\ \E req \in net : \E id \in SavedIds :
         /\ req.src = "sim" /\ req.path = "tariff/history/save"
         /\ SimFinish([sim.result[1] EXCEPT !.calculationId = id])
         /\ net' = net \ {req}
    /\ UNCHANGED <<mounted, session, calc, home, tdt, rt, cmp, cart, adm, trd>>

\* the answer is not ok: "Fetch the latest history to try to get the ID"
SimSaveNotOk ==
    /\ mounted = "sim"
    /\ sim.pc = "save"
    /\ \E req \in net :
         /\ req.src = "sim" /\ req.path = "tariff/history/save"
         /\ sim' = [sim EXCEPT !.pc = "history"]
         /\ net' = (net \ {req}) \cup {fetch("sim", "GET", "tariff/history")}
    /\ UNCHANGED <<mounted, session, calc, home, tdt, rt, cmp, cart, adm, trd>>

\* fetch threw: the inner catch gives a local id
SimSaveThrew ==
    /\ mounted = "sim"
    /\ sim.pc = "save"
    /\ \E req \in net :
         /\ req.src = "sim" /\ req.path = "tariff/history/save"
         /\ SimFinish([sim.result[1] EXCEPT !.calculationId = LocalId])
         /\ net' = net \ {req}
    /\ UNCHANGED <<mounted, session, calc, home, tdt, rt, cmp, cart, adm, trd>>

\* the answer to GET tariff/history is ok with a non-empty array:
\* result.calculationId = historyData[0].id || historyData[0].calculationId
SimHistoryOk ==
    /\ mounted = "sim"
    /\ sim.pc = "history"
    /\ \E req \in net : \E id \in LatestIds :
         /\ req.src = "sim" /\ req.path = "tariff/history"
         /\ SimFinish([sim.result[1] EXCEPT !.calculationId = id])
         /\ net' = net \ {req}
    /\ UNCHANGED <<mounted, session, calc, home, tdt, rt, cmp, cart, adm, trd>>

\* ok with an empty array or no array: the result keeps no id
SimHistoryEmpty ==
    /\ mounted = "sim"
    /\ sim.pc = "history"
    /\ \E req \in net :
         /\ req.src = "sim" /\ req.path = "tariff/history"
         /\ SimFinish(sim.result[1])
         /\ net' = net \ {req}
    /\ UNCHANGED <<mounted, session, calc, home, tdt, rt, cmp, cart, adm, trd>>

\* not ok: nothing is read from the answer
SimHistoryNotOk ==
    /\ mounted = "sim"
    /\ sim.pc = "history"
    /\ \E req \in net :
         /\ req.src = "sim" /\ req.path = "tariff/history"
         /\ SimFinish(sim.result[1])
         /\ net' = net \ {req}
    /\ UNCHANGED <<mounted, session, calc, home, tdt, rt, cmp, cart, adm, trd>>

\* fetch threw: the inner catch gives a local id
SimHistoryThrew ==
    /\ mounted = "sim"
    /\ sim.pc = "history"
    /\ \E req \in net :
         /\ req.src = "sim" /\ req.path = "tariff/history"
         /\ SimFinish([sim.result[1] EXCEPT !.calculationId = LocalId])
         /\ net' = net \ {req}
    /\ UNCHANGED <<mounted, session, calc, home, tdt, rt, cmp, cart, adm, trd>>

SimNext ==
    \/ SimHandleInputChange
    \/ SimHandleSubmit
    \/ SimSaveOk
    \/ SimSaveNotOk
    \/ SimSaveThrew
    \/ SimHistoryOk
    \/ SimHistoryEmpty
    \/ SimHistoryNotOk
    \/ SimHistoryThrew

----------------------------------------------------------------------------
(* Home: what the page keeps of a calculation *)

\* `calc_${Date.now()}_${Math.random()...}`
GeneratedId == "calc"

HomeInit == [calculationResults |-> Null, cartCount |-> 0]

\* handleCalculationComplete(results)
handleCalculationComplete(h, results) ==
    [h EXCEPT !.calculationResults =
        Some([data |-> results,
              calculationId |-> IF results.calculationId # "" THEN results.calculationId
                                ELSE GeneratedId])]

\* the carts the backend may answer GET export-cart with (their items' ids)
ServerCartItems == {<<>>, <<"h1">>, <<"h1", "h2">>}

\* fetchCartCount up to its fetch
HomeCartCountRequest == fetch("home", "GET", "export-cart")

\* fetchCartCount: the answer is ok with a JSON array,
\* setCartCount(cartData.length)
HomeCartCountOk ==
    /\ HomeCartCountRequest \in net
    /\ net' = net \ {HomeCartCountRequest}
    /\ \E cartData \in ServerCartItems : home' = [home EXCEPT !.cartCount = Len(cartData)]
    /\ UNCHANGED <<mounted, session, sim, calc, tdt, rt, cmp, cart, adm, trd>>

\* 204, not ok, no JSON, no array, or the fetch threw: setCartCount(0)
HomeCartCountZero ==
    /\ HomeCartCountRequest \in net
    /\ net' = net \ {HomeCartCountRequest}
    /\ home' = [home EXCEPT !.cartCount = 0]
    /\ UNCHANGED <<mounted, session, sim, calc, tdt, rt, cmp, cart, adm, trd>>

----------------------------------------------------------------------------
(* TariffCalculatorForm, mounted by Home with tariffSource = "global" *)

CalcFieldValues ==
    [product |-> {"", "Rice"}, exportingFrom |-> {"", "SG"},
     importingTo |-> {"", "SG", "MY"}, quantity |-> {"", "abc", "0", "1"},
     customCost |-> {"", "abc", "0", "3"}]

\* createInitialFormData()
createInitialFormData ==
    [product |-> "", exportingFrom |-> "", importingTo |-> "", quantity |-> "1",
     customCost |-> "", currency |-> "USD"]

\* the codes of FALLBACK_CURRENCIES
FALLBACK_CURRENCIES == <<"USD", "SGD", "EUR", "CNY">>

\* currency lists the backend may answer with (their codes; "" is an entry
\* with no code)
ServerCurrencies == {<<"EUR", "USD">>, <<"">>}

\* the entries of an array
Range(list) == {list[i] : i \in DOMAIN list}

\* bodies of a failed GET tariff: {error: text}, {} and one that is no JSON
CalcErrorBodies ==
    {[json |-> TRUE, error |-> "No tariff found"], [json |-> TRUE, error |-> ""],
     [json |-> FALSE, error |-> ""]}

\* handleCalculationError: response.json().catch(() => ({error: `HTTP ${status}`}))
handleCalculationError(body) ==
    IF ~body.json THEN "HTTP 500"
    ELSE IF body.error # "" THEN body.error ELSE "Calculation failed"

\* validateRequiredFields() && validateQuantity() && validateCustomCost():
\* the error of the first failing one, "" when all pass
validateFormData(f) ==
    IF f.product = "" \/ f.exportingFrom = "" \/ f.importingTo = "" \/ f.quantity = ""
       \/ f.customCost = ""
    THEN "Please fill in all required fields"
    ELSE IF LeqZero(parseFloat(f.quantity)) THEN "Quantity must be greater than 0"
    ELSE IF IsNaN(parseFloat(f.customCost)) \/ LeqZero(parseFloat(f.customCost))
    THEN "Unit cost must be greater than 0"
    ELSE ""

\* after construction and the mount effect: resetForm(), loadInitialData()
\* and loadCurrencies() have each run to their first fetch
CalcConstructed ==
    [formData |-> createInitialFormData, error |-> "", isLoading |-> FALSE,
     availableCurrencies |-> <<>>, pc |-> "idle", data |-> Null]

CalcMountRequests ==
    {fetch("calc", "GET", "products"), fetch("calc", "GET", "tariffs/currencies")}

CalcReq(path) == {req \in net : req.src = "calc" /\ req.path = path}

\* loadGlobalData: the answer to GET products is read as JSON, whatever its
\* status, and GET countries follows
CalcProductsAnswered ==
    /\ mounted = "calc"
    /\ \E req \in CalcReq("products") :
         net' = (net \ {req}) \cup {fetch("calc", "GET", "countries")}
    /\ UNCHANGED <<mounted, session, sim, calc, home, tdt, rt, cmp, cart, adm, trd>>

\* fetch or response.json() threw: loadInitialData catches and resets the lists
CalcProductsThrew ==
    /\ mounted = "calc"
    /\ \E req \in CalcReq("products") : net' = net \ {req}
    /\ UNCHANGED <<mounted, session, sim, calc, home, tdt, rt, cmp, cart, adm, trd>>

CalcCountriesAnswered ==
    /\ mounted = "calc"
    /\ \E req \in CalcReq("countries") : net' = net \ {req}
    /\ UNCHANGED <<mounted, session, sim, calc, home, tdt, rt, cmp, cart, adm, trd>>

\* GET countries threw: loadInitialData catches
CalcCountriesThrew ==
    /\ mounted = "calc"
    /\ \E req \in CalcReq("countries") : net' = net \ {req}
    /\ UNCHANGED <<mounted, session, sim, calc, home, tdt, rt, cmp, cart, adm, trd>>

\* loadCurrencies: ok with a non-empty payload.currency array
CalcCurrenciesOk ==
    /\ mounted = "calc"
    /\ \E req \in CalcReq("tariffs/currencies") : \E currencies \in ServerCurrencies :
         /\ net' = net \ {req}
         /\ calc' = [calc EXCEPT
                !.availableCurrencies = currencies,
                !.formData.currency =
                    IF @ # "" /\ @ \in Range(currencies) THEN @ ELSE currencies[1]]
    /\ UNCHANGED <<mounted, session, sim, home, tdt, rt, cmp, cart, adm, trd>>

\* a catch block that forgets the static list
CalcCurrenciesFallbackKeepsList ==
    [calc EXCEPT !.formData.currency = IF @ # "" THEN @ ELSE FALLBACK_CURRENCIES[1]]

\* the catch block of loadCurrencies
CalcCurrenciesFallback ==
    [calc EXCEPT !.availableCurrencies = FALLBACK_CURRENCIES,
                 !.formData.currency = IF @ # "" THEN @ ELSE FALLBACK_CURRENCIES[1]]

\* ok, but payload.currency is empty or no array: "Currency list is empty"
CalcCurrenciesEmpty ==
    /\ mounted = "calc"
    /\ \E req \in CalcReq("tariffs/currencies") : net' = net \ {req}
    /\ calc' = CalcCurrenciesFallback
    /\ UNCHANGED <<mounted, session, sim, home, tdt, rt, cmp, cart, adm, trd>>

\* not ok: "Failed to load currencies"
CalcCurrenciesNotOk ==
    /\ mounted = "calc"
    /\ \E req \in CalcReq("tariffs/currencies") : net' = net \ {req}
    /\ calc' = CalcCurrenciesFallback
    /\ UNCHANGED <<mounted, session, sim, home, tdt, rt, cmp, cart, adm, trd>>

\* getAuthToken, fetch or response.json() threw
CalcCurrenciesThrew ==
    /\ mounted = "calc"
    /\ \E req \in CalcReq("tariffs/currencies") : net' = net \ {req}
    /\ calc' = CalcCurrenciesFallback
    /\ UNCHANGED <<mounted, session, sim, home, tdt, rt, cmp, cart, adm, trd>>

\* handleInputChange(field, value)
CalcHandleInputChange ==
    /\ mounted = "calc"
    /\ \E field \in DOMAIN CalcFieldValues : \E value \in CalcFieldValues[field] :
          calc' = [calc EXCEPT !.formData[field] = value, !.error = ""]
    /\ UNCHANGED <<mounted, session, net, sim, home, tdt, rt, cmp, cart, adm, trd>>

\* the currency Select: setFormData((prev) => ({...prev, currency: value}))
CalcSelectCurrency ==
    /\ mounted = "calc"
    /\ \E value \in Range(calc.availableCurrencies) :
          calc' = [calc EXCEPT !.formData.currency = value]
    /\ UNCHANGED <<mounted, session, net, sim, home, tdt, rt, cmp, cart, adm, trd>>

\* handleSubmit up to performCalculation's fetch
CalcHandleSubmit ==
    /\ mounted = "calc"
    /\ ~calc.isLoading
    /\ LET err == validateFormData(calc.formData) IN
       IF err # ""
       THEN /\ calc' = [calc EXCEPT !.error = err, !.isLoading = FALSE]
            /\ UNCHANGED net
       ELSE /\ calc' = [calc EXCEPT !.error = "", !.isLoading = TRUE, !.pc = "tariff"]
            /\ net' = net \cup {fetch("calc", "GET", "tariff")}
    /\ UNCHANGED <<mounted, session, sim, home, tdt, rt, cmp, cart, adm, trd>>

\* GET tariff threw, or its body is no JSON: the catch of handleSubmit
CalcTariffThrew ==
    /\ mounted = "calc"
    /\ calc.pc = "tariff"
    /\ \E req \in CalcReq("tariff") : net' = net \ {req}
    /\ calc' = [calc EXCEPT !.error = "An unexpected error occurred during calculation",
                            !.isLoading = FALSE, !.pc = "idle"]
    /\ UNCHANGED <<mounted, session, sim, home, tdt, rt, cmp, cart, adm, trd>>

\* GET tariff is not ok: handleCalculationError
CalcTariffNotOk ==
    /\ mounted = "calc"
    /\ calc.pc = "tariff"
    /\ \E req \in CalcReq("tariff") : net' = net \ {req}
    /\ \E body \in CalcErrorBodies :
          calc' = [calc EXCEPT !.error = handleCalculationError(body),
                               !.isLoading = FALSE, !.pc = "idle"]
    /\ UNCHANGED <<mounted, session, sim, home, tdt, rt, cmp, cart, adm, trd>>

\* GET tariff is ok but !result.success || !result.data:
\* setError(result.error || "Calculation failed")
CalcTariffRejected ==
    /\ mounted = "calc"
    /\ calc.pc = "tariff"
    /\ \E req \in CalcReq("tariff") : net' = net \ {req}
    /\ \E body \in {b \in CalcErrorBodies : b.json} :
          calc' = [calc EXCEPT !.error = IF body.error # "" THEN body.error
                                         ELSE "Calculation failed",
                               !.isLoading = FALSE, !.pc = "idle"]
    /\ UNCHANGED <<mounted, session, sim, home, tdt, rt, cmp, cart, adm, trd>>

\* GET tariff is ok with data: handleCalculationSuccess up to
\* saveCalculationToHistory's fetch
CalcTariffOk ==
    /\ mounted = "calc"
    /\ calc.pc = "tariff"
    /\ \E req \in CalcReq("tariff") :
          net' = (net \ {req}) \cup {fetch("calc", "POST", "tariff/history/save")}
    /\ calc' = [calc EXCEPT !.pc = "save", !.data = Some([calculationId |-> ""])]
    /\ UNCHANGED <<mounted, session, sim, home, tdt, rt, cmp, cart, adm, trd>>

\* onCalculationComplete(result.data) and the finally of handleSubmit
CalcComplete(data) ==
    /\ calc' = [calc EXCEPT !.isLoading = FALSE, !.pc = "idle", !.data = Null]
    /\ home' = handleCalculationComplete(home, data)

\* the save is ok: calculationId = savedCalculation.id ||
\* savedCalculation.calculationId || result.data.calculationId
CalcSaveOk ==
    /\ mounted = "calc"
    /\ calc.pc = "save"
    /\ \E req \in CalcReq("tariff/history/save") : net' = net \ {req}
    /\ \E id \in SavedIds :
          CalcComplete([calc.data[1] EXCEPT !.calculationId = IF id # "" THEN id ELSE @])
    /\ UNCHANGED <<mounted, session, sim, tdt, rt, cmp, cart, adm, trd>>

\* saveCalculationToHistory returns null, attachCalculationMetadata asks for
\* the history
CalcSaveFailed ==
    /\ \E req \in CalcReq("tariff/history/save") :
          net' = (net \ {req}) \cup {fetch("calc", "GET", "tariff/history")}
    /\ calc' = [calc EXCEPT !.pc = "history"]
    /\ UNCHANGED <<mounted, session, sim, home, tdt, rt, cmp, cart, adm, trd>>

\* the save is not ok
CalcSaveNotOk ==
    /\ mounted = "calc"
    /\ calc.pc = "save"
    /\ CalcSaveFailed

\* the save threw
CalcSaveThrew ==
    /\ mounted = "calc"
    /\ calc.pc = "save"
    /\ CalcSaveFailed

\* fetchLatestCalculationId: ok with a non-empty array,
\* result.data.calculationId = historyData[0].id
CalcHistoryOk ==
    /\ mounted = "calc"
    /\ calc.pc = "history"
    /\ \E req \in CalcReq("tariff/history") : net' = net \ {req}
    /\ \E id \in LatestIds : CalcComplete([calc.data[1] EXCEPT !.calculationId = id])
    /\ UNCHANGED <<mounted, session, sim, tdt, rt, cmp, cart, adm, trd>>

\* ok with an empty array or no array
CalcHistoryEmpty ==
    /\ mounted = "calc"
    /\ calc.pc = "history"
    /\ \E req \in CalcReq("tariff/history") : net' = net \ {req}
    /\ CalcComplete(calc.data[1])
    /\ UNCHANGED <<mounted, session, sim, tdt, rt, cmp, cart, adm, trd>>

\* not ok
CalcHistoryNotOk ==
    /\ mounted = "calc"
    /\ calc.pc = "history"
    /\ \E req \in CalcReq("tariff/history") : net' = net \ {req}
    /\ CalcComplete(calc.data[1])
    /\ UNCHANGED <<mounted, session, sim, tdt, rt, cmp, cart, adm, trd>>

\* a lookup that, having thrown, saves the calculation once more
CalcHistoryThrewSavesAgain ==
    /\ mounted = "calc"
    /\ calc.pc = "history"
    /\ \E req \in CalcReq("tariff/history") :
          net' = (net \ {req}) \cup {fetch("calc", "POST", "tariff/history/save")}
    /\ calc' = [calc EXCEPT !.pc = "save"]
    /\ UNCHANGED <<mounted, session, sim, home, tdt, rt, cmp, cart, adm, trd>>

\* threw: caught inside fetchLatestCalculationId
CalcHistoryThrew ==
    /\ mounted = "calc"
    /\ calc.pc = "history"
    /\ \E req \in CalcReq("tariff/history") : net' = net \ {req}
    /\ CalcComplete(calc.data[1])
    /\ UNCHANGED <<mounted, session, sim, tdt, rt, cmp, cart, adm, trd>>

CalcNext ==
    \/ CalcProductsAnswered
    \/ CalcProductsThrew
    \/ CalcCountriesAnswered
    \/ CalcCountriesThrew
    \/ CalcCurrenciesOk
    \/ CalcCurrenciesEmpty
    \/ CalcCurrenciesNotOk
    \/ CalcCurrenciesThrew
    \/ CalcHandleInputChange
    \/ CalcSelectCurrency
    \/ CalcHandleSubmit
    \/ CalcTariffThrew
    \/ CalcTariffNotOk
    \/ CalcTariffRejected
    \/ CalcTariffOk
    \/ CalcSaveOk
    \/ CalcSaveNotOk
    \/ CalcSaveThrew
    \/ CalcHistoryOk
    \/ CalcHistoryEmpty
    \/ CalcHistoryNotOk
    \/ CalcHistoryThrew

----------------------------------------------------------------------------
(* TariffDefinitionsTable({userRole, simulatorMode}) *)

MINIMUM_RATE == 0
USER_ID_PREFIX == "user"
ADMIN_MODIFIED_PREFIX == "admin-modified"

IdNumbers == 1 .. 2

\* id.startsWith(prefix), for ids of the form `${prefix}-${n}`
startsWith(id, prefix) == \E n \in IdNumbers : id = prefix \o "-" \o ToString(n)

Tariff(id, product, exportingFrom, importingTo, rate) ==
    [id |-> id, product |-> product, exportingFrom |-> exportingFrom,
     importingTo |-> importingTo, type |-> "AHS", rate |-> rate,
     effectiveDate |-> "2025-01-01", expirationDate |-> "Ongoing"]

\* the lists the backend may answer with (data: [] is an answer too)
ServerGlobalTariffs == {<<Tariff("global-1", "Rice", "SG", "MY", Num(500))>>}
ServerModifiedTariffs == {<<>>, <<Tariff("admin-modified-1", "Rice", "SG", "MY", Num(0))>>}
\* (a user tariff's id need not carry the user- prefix)
ServerUserTariffs ==
    {<<>>, <<Tariff("user-1", "Rice", "SG", "MY", Num(500))>>,
     <<Tariff("admin-modified-1", "Rice", "SG", "MY", Num(500))>>}
\* response.data of a POST to tariff-definitions/modified
ServerAddedTariffs == {<<Tariff("admin-modified-2", "Rice", "SG", "MY", Num(0))>>}

TdtFieldValues ==
    [product |-> {"", "Rice"}, exportingFrom |-> {"", "SG"}, importingTo |-> {"", "SG", "MY"},
     type |-> {"", "AHS"}, rate |-> {"", "abc", "-1", "0", "5"},
     effectiveDate |-> {"", "2025-01-01"}, expirationDate |-> {"", "Ongoing"}]

createInitialNewTariff ==
    [product |-> "", exportingFrom |-> "", importingTo |-> "", type |-> "", rate |-> "",
     effectiveDate |-> "", expirationDate |-> ""]

\* showAlert(title, message): of the two texts the title is kept
showAlert(title) == [open |-> TRUE, title |-> title]

isAdminRole(t) == t.userRole = "admin"
\* every user may manage the tariffs
canManageTariffsAnyone(t) == TRUE

canManageTariffs(t) == t.simulatorMode \/ isAdminRole(t)

validateAllFieldsFilled(f) ==
    ~(f.product = "" \/ f.exportingFrom = "" \/ f.importingTo = "" \/ f.type = ""
      \/ f.rate = "" \/ f.effectiveDate = "" \/ f.expirationDate = "")

validateRate(f) ==
    LET rateValue == parseFloat(f.rate)
    IN  ~(IsNaN(rateValue) \/ Val(rateValue) < MINIMUM_RATE * 100)

\* a country-pair check that lets every pair through
validateCountryPairAny(f) == TRUE

validateCountryPair(f) == ~(f.exportingFrom = f.importingTo)

\* validateAllFieldsFilled() && validateRate() && validateCountryPair(): the
\* title of the alert the first failing one shows, "" when all pass
validateTariffInput(f) ==
    IF ~validateAllFieldsFilled(f) THEN "Incomplete Information"
    ELSE IF ~validateRate(f) THEN "Invalid Rate"
    ELSE IF ~validateCountryPair(f) THEN "Invalid Country Pair"
    ELSE ""

Ids(tariffs) == {tariffs[i].id : i \in DOMAIN tariffs}

SameRoute(a, b) ==
    a.product = b.product /\ a.exportingFrom = b.exportingFrom /\ a.importingTo = b.importingTo

\* checkIfTariffReplaced(payload)
checkIfTariffReplaced(t, payload) ==
    \E i \in DOMAIN t.modifiedGlobalTariffs : SameRoute(t.modifiedGlobalTariffs[i], payload)

\* one pass of mergeTariffs' forEach: the modified tariff replaces the first
\* tariff of its route, or is pushed
MergeOne(merged, modifiedTariff) ==
    LET hits == {i \in DOMAIN merged : SameRoute(merged[i], modifiedTariff)}
    IN  IF hits # {}
        THEN [merged EXCEPT ![CHOOSE i \in hits : \A j \in hits : i <= j] = modifiedTariff]
        ELSE Append(merged, modifiedTariff)

RECURSIVE MergeAll(_, _)
MergeAll(merged, modified) ==
    IF modified = <<>> THEN merged
    ELSE MergeAll(MergeOne(merged, Head(modified)), Tail(modified))

mergeTariffs(t) == MergeAll(t.globalTariffs, t.modifiedGlobalTariffs)

FILTER_ALL_VALUE == "all"

createInitialFilters == [product |-> "", exportingFrom |-> "", importingTo |-> ""]

\* !filters.product || tariff.product === filters.product
matchesProductFilter(t, tariff) ==
    t.filters.product = "" \/ tariff.product = t.filters.product

matchesExportingFilter(t, tariff) ==
    t.filters.exportingFrom = "" \/ tariff.exportingFrom = t.filters.exportingFrom

\* a filter on the importing country that lets every tariff through
matchesImportingFilterAny(t, tariff) == TRUE

matchesImportingFilter(t, tariff) ==
    t.filters.importingTo = "" \/ tariff.importingTo = t.filters.importingTo

\* tariffs.filter(...): the matching tariffs, in the order of the list
getFilteredTariffs(t, tariffs) ==
    LET matches(tariff) == /\ matchesProductFilter(t, tariff)
                           /\ matchesExportingFilter(t, tariff)
                           /\ matchesImportingFilter(t, tariff)
    IN SelectSeq(tariffs, matches)

\* the list handed to renderTariffTable
RenderedTariffs(t) == IF t.simulatorMode THEN t.userTariffs ELSE mergeTariffs(t)

\* renderTariffTable: displayTariffs, the rows of the table
displayTariffs(t) == getFilteredTariffs(t, RenderedTariffs(t))

\* the rows that carry the edit and delete buttons
ActionRows(t) ==
    IF t.simulatorMode \/ isAdminRole(t) THEN displayTariffs(t) ELSE <<>>

\* the endpoint chosen by the role alone
getAddTariffEndpointByRole(t) ==
    IF isAdminRole(t) THEN "tariff-definitions/modified" ELSE "tariff-definitions/user"

getAddTariffEndpoint(t) ==
    IF ~t.simulatorMode /\ isAdminRole(t) THEN "tariff-definitions/modified"
    ELSE "tariff-definitions/user"

TdtConstructed(userRole, simulatorMode) ==
    [userRole |-> userRole, simulatorMode |-> simulatorMode,
     globalTariffs |-> <<>>, modifiedGlobalTariffs |-> <<>>, userTariffs |-> <<>>,
     isLoading |-> TRUE, isDialogOpen |-> FALSE, isEditDialogOpen |-> FALSE,
     editingTariff |-> Null, alertDialog |-> [open |-> FALSE, title |-> ""],
     newTariff |-> createInitialNewTariff, filters |-> createInitialFilters]

\* a request of the table's; k = <<the awaiting handler's step, a flag it keeps>>
TdtFetch(method, path, step, flag) == fetchWith("tdt", method, path, <<step, flag>>)

TdtReq(step) == {req \in net : req.src = "tdt" /\ req.k # <<>> /\ req.k[1] = step}

\* loadTariffs up to its first fetch
TdtMountRequests(t) ==
    IF t.simulatorMode THEN {TdtFetch("GET", "tariff-definitions/user", "loadUser", FALSE)}
    ELSE {TdtFetch("GET", "tariff-definitions/global", "loadGlobal", FALSE)}

\* loadCountriesAndProducts: Promise.all of the two fetches
TdtOptionRequests ==
    {TdtFetch("GET", "countries", "loadOptions", FALSE),
     TdtFetch("GET", "products", "loadOptions", TRUE)}

\* the catch and finally of loadTariffs
TdtLoadFailed ==
    tdt' = [tdt EXCEPT !.alertDialog = showAlert("Error"), !.isLoading = FALSE]

\* GET tariff-definitions/global is ok: setGlobalTariffs when success && data,
\* then loadModifiedGlobalTariffs (admin) or loadCountriesAndProducts
TdtGlobalOk ==
    /\ mounted = "tdt"
    /\ \E req \in TdtReq("loadGlobal") :
       \E data \in {Some(d) : d \in ServerGlobalTariffs} \cup {Null} :
         /\ tdt' = [tdt EXCEPT !.globalTariffs = IF data # Null THEN data[1] ELSE @]
         /\ net' = (net \ {req}) \cup
                   (IF isAdminRole(tdt)
                    THEN {TdtFetch("GET", "tariff-definitions/modified", "loadModified", FALSE)}
                    ELSE TdtOptionRequests)
    /\ UNCHANGED <<mounted, session, sim, calc, home, rt, cmp, cart, adm, trd>>

\* not ok: throw new Error(`Global defs failed ...`)
TdtGlobalNotOk ==
    /\ mounted = "tdt"
    /\ \E req \in TdtReq("loadGlobal") : net' = net \ {req}
    /\ TdtLoadFailed
    /\ UNCHANGED <<mounted, session, sim, calc, home, rt, cmp, cart, adm, trd>>

TdtGlobalThrew ==
    /\ mounted = "tdt"
    /\ \E req \in TdtReq("loadGlobal") : net' = net \ {req}
    /\ TdtLoadFailed
    /\ UNCHANGED <<mounted, session, sim, calc, home, rt, cmp, cart, adm, trd>>

\* GET tariff-definitions/modified is ok
TdtModifiedOk ==
    /\ mounted = "tdt"
    /\ \E req \in TdtReq("loadModified") :
       \E data \in {Some(d) : d \in ServerModifiedTariffs} \cup {Null} :
         /\ tdt' = [tdt EXCEPT !.modifiedGlobalTariffs = IF data # Null THEN data[1] ELSE @]
         /\ net' = (net \ {req}) \cup TdtOptionRequests
    /\ UNCHANGED <<mounted, session, sim, calc, home, rt, cmp, cart, adm, trd>>

\* not ok: the answer is passed over and loadTariffs goes on
TdtModifiedNotOk ==
    /\ mounted = "tdt"
    /\ \E req \in TdtReq("loadModified") : net' = (net \ {req}) \cup TdtOptionRequests
    /\ UNCHANGED <<mounted, session, sim, calc, home, tdt, rt, cmp, cart, adm, trd>>

TdtModifiedThrew ==
    /\ mounted = "tdt"
    /\ \E req \in TdtReq("loadModified") : net' = net \ {req}
    /\ TdtLoadFailed
    /\ UNCHANGED <<mounted, session, sim, calc, home, rt, cmp, cart, adm, trd>>

\* GET tariff-definitions/user is ok
TdtUserOk ==
    /\ mounted = "tdt"
    /\ \E req \in TdtReq("loadUser") :
       \E data \in {Some(d) : d \in ServerUserTariffs} \cup {Null} :
         /\ tdt' = [tdt EXCEPT !.userTariffs = IF data # Null THEN data[1] ELSE @]
         /\ net' = (net \ {req}) \cup TdtOptionRequests
    /\ UNCHANGED <<mounted, session, sim, calc, home, rt, cmp, cart, adm, trd>>

TdtUserNotOk ==
    /\ mounted = "tdt"
    /\ \E req \in TdtReq("loadUser") : net' = net \ {req}
    /\ TdtLoadFailed
    /\ UNCHANGED <<mounted, session, sim, calc, home, rt, cmp, cart, adm, trd>>

TdtUserThrew ==
    /\ mounted = "tdt"
    /\ \E req \in TdtReq("loadUser") : net' = net \ {req}
    /\ TdtLoadFailed
    /\ UNCHANGED <<mounted, session, sim, calc, home, rt, cmp, cart, adm, trd>>

\* both of GET countries and GET products are ok: the finally of loadTariffs
TdtOptionsOk ==
    /\ mounted = "tdt"
    /\ TdtOptionRequests \subseteq net
    /\ net' = net \ TdtOptionRequests
    /\ tdt' = [tdt EXCEPT !.isLoading = FALSE]
    /\ UNCHANGED <<mounted, session, sim, calc, home, rt, cmp, cart, adm, trd>>

\* one of the two is not ok: throw new Error(`Countries failed ...`)
TdtOptionsNotOk ==
    /\ mounted = "tdt"
    /\ TdtOptionRequests \subseteq net
    /\ net' = net \ TdtOptionRequests
    /\ TdtLoadFailed
    /\ UNCHANGED <<mounted, session, sim, calc, home, rt, cmp, cart, adm, trd>>

TdtOptionsThrew ==
    /\ mounted = "tdt"
    /\ TdtOptionRequests \subseteq net
    /\ net' = net \ TdtOptionRequests
    /\ TdtLoadFailed
    /\ UNCHANGED <<mounted, session, sim, calc, home, rt, cmp, cart, adm, trd>>

\* the table is rendered and no alert covers it.  The user followed here
\* clicks once the handler of the previous click has its answers.
TdtShown == mounted = "tdt" /\ ~tdt.isLoading /\ ~tdt.alertDialog.open /\ net = {}

\* the add dialog and the edit dialog, as rendered
TdtAddOpen == canManageTariffs(tdt) /\ tdt.isDialogOpen
TdtEditOpen == tdt.userRole = "admin" /\ tdt.isEditDialogOpen

\* the AlertDialogAction: closeAlert()
TdtCloseAlert ==
    /\ mounted = "tdt"
    /\ ~tdt.isLoading
    /\ tdt.alertDialog.open
    /\ tdt' = [tdt EXCEPT !.alertDialog.open = FALSE]
    /\ UNCHANGED <<mounted, session, net, sim, calc, home, rt, cmp, cart, adm, trd>>

\* the DialogTrigger: setIsDialogOpen(true)
TdtOpenAddDialog ==
    /\ TdtShown
    /\ canManageTariffs(tdt) /\ ~tdt.isDialogOpen /\ ~TdtEditOpen
    /\ tdt' = [tdt EXCEPT !.isDialogOpen = TRUE]
    /\ UNCHANGED <<mounted, session, net, sim, calc, home, rt, cmp, cart, adm, trd>>

\* Cancel, or the dialog's onOpenChange(false)
TdtCloseAddDialog ==
    /\ TdtShown
    /\ TdtAddOpen
    /\ tdt' = [tdt EXCEPT !.isDialogOpen = FALSE]
    /\ UNCHANGED <<mounted, session, net, sim, calc, home, rt, cmp, cart, adm, trd>>

\* a field of either dialog: setNewTariff({...newTariff, [field]: value}); the
\* edit dialog's two country fields are disabled
TdtChangeNewTariff ==
    /\ TdtShown
    /\ TdtAddOpen \/ TdtEditOpen
    /\ \E field \in DOMAIN TdtFieldValues : \E value \in TdtFieldValues[field] :
         /\ TdtEditOpen => field \notin {"exportingFrom", "importingTo"}
         /\ tdt' = [tdt EXCEPT !.newTariff[field] = value]
    /\ UNCHANGED <<mounted, session, net, sim, calc, home, rt, cmp, cart, adm, trd>>

\* handleAddTariff up to addTariffToBackend's fetch
TdtHandleAddTariff ==
    /\ TdtShown
    /\ TdtAddOpen
    /\ LET title == validateTariffInput(tdt.newTariff) IN
       IF title # ""
       THEN /\ tdt' = [tdt EXCEPT !.alertDialog = showAlert(title)]
            /\ UNCHANGED net
       ELSE /\ net' = net \cup {TdtFetch("POST", getAddTariffEndpoint(tdt), "add",
                                         checkIfTariffReplaced(tdt, tdt.newTariff))}
            /\ UNCHANGED tdt
    /\ UNCHANGED <<mounted, session, sim, calc, home, rt, cmp, cart, adm, trd>>

\* the POST is ok with success && data, simulator mode:
\* handleSimulatorModeSuccess up to reloadUserTariffs' fetch
TdtAddOkSimulator ==
    /\ mounted = "tdt"
    /\ tdt.simulatorMode
    /\ \E req \in TdtReq("add") :
         net' = (net \ {req}) \cup {TdtFetch("GET", "tariff-definitions/user", "addReload", FALSE)}
    /\ UNCHANGED <<mounted, session, sim, calc, home, tdt, rt, cmp, cart, adm, trd>>

\* resetNewTariffForm()
resetNewTariffForm(t) == [t EXCEPT !.newTariff = createInitialNewTariff, !.isDialogOpen = FALSE]

\* the POST is ok with success && data, admin outside simulator mode:
\* handleAdminModeSuccess, then resetNewTariffForm; the backend gives the
\* tariffs it created ids the list does not hold yet
TdtAddOkAdmin ==
    /\ mounted = "tdt"
    /\ ~tdt.simulatorMode /\ isAdminRole(tdt)
    /\ \E req \in TdtReq("add") : \E data \in ServerAddedTariffs :
         /\ \A i \in DOMAIN data : data[i].id \notin Ids(tdt.modifiedGlobalTariffs)
         /\ net' = net \ {req}
         /\ tdt' = resetNewTariffForm(
                     [tdt EXCEPT !.modifiedGlobalTariffs = @ \o data,
                                 !.alertDialog = showAlert(IF req.k[2] THEN "Tariff Updated"
                                                           ELSE "Success")])
    /\ UNCHANGED <<mounted, session, sim, calc, home, rt, cmp, cart, adm, trd>>

\* the catch of handleAddTariff
TdtAddFailed ==
    tdt' = [tdt EXCEPT !.alertDialog = showAlert("Error")]

\* the POST is ok but !response.success || !response.data
TdtAddRejected ==
    /\ mounted = "tdt"
    /\ \E req \in TdtReq("add") : net' = net \ {req}
    /\ TdtAddFailed
    /\ UNCHANGED <<mounted, session, sim, calc, home, rt, cmp, cart, adm, trd>>

\* the POST is not ok: throw new Error(`Add tariff failed ...`)
TdtAddNotOk ==
    /\ mounted = "tdt"
    /\ \E req \in TdtReq("add") : net' = net \ {req}
    /\ TdtAddFailed
    /\ UNCHANGED <<mounted, session, sim, calc, home, rt, cmp, cart, adm, trd>>

TdtAddThrew ==
    /\ mounted = "tdt"
    /\ \E req \in TdtReq("add") : net' = net \ {req}
    /\ TdtAddFailed
    /\ UNCHANGED <<mounted, session, sim, calc, home, rt, cmp, cart, adm, trd>>

\* the pencil button of a row: handleEditTariff(tariff)
TdtHandleEditTariff ==
    /\ TdtShown
    /\ ~TdtAddOpen /\ ~TdtEditOpen
    /\ \E i \in DOMAIN ActionRows(tdt) :
         LET tariff == ActionRows(tdt)[i] IN
         tdt' = [tdt EXCEPT
                   !.editingTariff = Some(tariff),
                   !.newTariff = [product |-> tariff.product,
                                  exportingFrom |-> tariff.exportingFrom,
                                  importingTo |-> tariff.importingTo,
                                  type |-> tariff.type,
                                  rate |-> toString(tariff.rate),
                                  effectiveDate |-> tariff.effectiveDate,
                                  expirationDate |-> tariff.expirationDate],
                   !.isEditDialogOpen = TRUE]
    /\ UNCHANGED <<mounted, session, net, sim, calc, home, rt, cmp, cart, adm, trd>>

\* Cancel of the edit dialog
TdtCancelEdit ==
    /\ TdtShown
    /\ TdtEditOpen
    /\ tdt' = [tdt EXCEPT !.isEditDialogOpen = FALSE, !.editingTariff = Null,
                          !.newTariff = createInitialNewTariff]
    /\ UNCHANGED <<mounted, session, net, sim, calc, home, rt, cmp, cart, adm, trd>>

\* the edit dialog's onOpenChange(false): setIsEditDialogOpen(false)
TdtCloseEditDialog ==
    /\ TdtShown
    /\ TdtEditOpen
    /\ tdt' = [tdt EXCEPT !.isEditDialogOpen = FALSE]
    /\ UNCHANGED <<mounted, session, net, sim, calc, home, rt, cmp, cart, adm, trd>>

\* handleUpdateTariff up to its fetch
TdtHandleUpdateTariff ==
    /\ TdtShown
    /\ TdtEditOpen
    /\ IF tdt.editingTariff = Null
       THEN UNCHANGED <<tdt, net>>
       ELSE LET title == validateTariffInput(tdt.newTariff)
                id == tdt.editingTariff[1].id
                isUserTariff == tdt.simulatorMode \/ startsWith(id, USER_ID_PREFIX)
            IN  IF title # ""
                THEN /\ tdt' = [tdt EXCEPT !.alertDialog = showAlert(title)]
                     /\ UNCHANGED net
                ELSE /\ net' = net \cup
                          {TdtFetch("PUT",
                                    IF isUserTariff THEN "tariff-definitions/user/" \o id
                                    ELSE "tariff-definitions/modified/" \o id,
                                    "update", isUserTariff)}
                     /\ UNCHANGED tdt
    /\ UNCHANGED <<mounted, session, sim, calc, home, rt, cmp, cart, adm, trd>>

\* the PUT is ok: reloadUserTariffs or reloadModifiedTariffs, up to its fetch
TdtUpdateOk ==
    /\ mounted = "tdt"
    /\ \E req \in TdtReq("update") :
         net' = (net \ {req}) \cup
                {TdtFetch("GET", IF req.k[2] THEN "tariff-definitions/user"
                                 ELSE "tariff-definitions/modified",
                          "updateReload", req.k[2])}
    /\ UNCHANGED <<mounted, session, sim, calc, home, tdt, rt, cmp, cart, adm, trd>>

\* the PUT is not ok: throw new Error(`Update failed ...`), caught
TdtUpdateNotOk ==
    /\ mounted = "tdt"
    /\ \E req \in TdtReq("update") : net' = net \ {req}
    /\ tdt' = [tdt EXCEPT !.alertDialog = showAlert("Error")]
    /\ UNCHANGED <<mounted, session, sim, calc, home, rt, cmp, cart, adm, trd>>

TdtUpdateThrew ==
    /\ mounted = "tdt"
    /\ \E req \in TdtReq("update") : net' = net \ {req}
    /\ tdt' = [tdt EXCEPT !.alertDialog = showAlert("Error")]
    /\ UNCHANGED <<mounted, session, sim, calc, home, rt, cmp, cart, adm, trd>>

\* the trash button of a row: handleDeleteTariff(tariff.id, isModifiedGlobal)
\* up to deleteTariffFromBackend's fetch; both tables are rendered with
\* isModifiedGlobal = false
TdtHandleDeleteTariff ==
    /\ TdtShown
    /\ ~TdtAddOpen /\ ~TdtEditOpen
    /\ \E i \in DOMAIN ActionRows(tdt) : \E isModifiedGlobal \in {FALSE} :
         LET id == ActionRows(tdt)[i].id IN
         net' = net \cup
                {TdtFetch("DELETE",
                          IF isModifiedGlobal THEN "tariff-definitions/modified/" \o id
                          ELSE "tariff-definitions/user/" \o id,
                          "delete", isModifiedGlobal)}
    /\ UNCHANGED <<mounted, session, sim, calc, home, tdt, rt, cmp, cart, adm, trd>>

\* the DELETE is ok: reloadModifiedTariffs or reloadUserTariffs, up to its fetch
TdtDeleteOk ==
    /\ mounted = "tdt"
    /\ \E req \in TdtReq("delete") :
         net' = (net \ {req}) \cup
                {TdtFetch("GET", IF req.k[2] THEN "tariff-definitions/modified"
                                 ELSE "tariff-definitions/user",
                          "deleteReload", req.k[2])}
    /\ UNCHANGED <<mounted, session, sim, calc, home, tdt, rt, cmp, cart, adm, trd>>

\* the DELETE is not ok: throw new Error(`Delete failed ...`), caught
TdtDeleteNotOk ==
    /\ mounted = "tdt"
    /\ \E req \in TdtReq("delete") : net' = net \ {req}
    /\ tdt' = [tdt EXCEPT !.alertDialog = showAlert("Error")]
    /\ UNCHANGED <<mounted, session, sim, calc, home, rt, cmp, cart, adm, trd>>

TdtDeleteThrew ==
    /\ mounted = "tdt"
    /\ \E req \in TdtReq("delete") : net' = net \ {req}
    /\ tdt' = [tdt EXCEPT !.alertDialog = showAlert("Error")]
    /\ UNCHANGED <<mounted, session, sim, calc, home, rt, cmp, cart, adm, trd>>

\* the reloads a handler awaits after its write
TdtReloads == TdtReq("addReload") \cup TdtReq("updateReload") \cup TdtReq("deleteReload")

\* what the handler does once its reload has returned
TdtAfterReload(t, step) ==
    IF step = "addReload"
    THEN resetNewTariffForm([t EXCEPT !.alertDialog = showAlert("Success")])
    ELSE IF step = "updateReload"
    THEN [t EXCEPT !.alertDialog = showAlert("Success"), !.editingTariff = Null,
                   !.newTariff = createInitialNewTariff, !.isEditDialogOpen = FALSE]
    ELSE [t EXCEPT !.alertDialog = showAlert("Deleted")]

\* reloadUserTariffs / reloadModifiedTariffs: the GET is ok, the list is set
\* when success && data
TdtReloadOk ==
    /\ mounted = "tdt"
    /\ \E req \in TdtReloads :
         LET user == req.path = "tariff-definitions/user" IN
         \E data \in {Some(d) : d \in IF user THEN ServerUserTariffs ELSE ServerModifiedTariffs}
                     \cup {Null} :
           /\ net' = net \ {req}
           /\ tdt' = TdtAfterReload(
                       [tdt EXCEPT !.userTariffs = IF user /\ data # Null THEN data[1] ELSE @,
                                   !.modifiedGlobalTariffs =
                                       IF ~user /\ data # Null THEN data[1] ELSE @],
                       req.k[1])
    /\ UNCHANGED <<mounted, session, sim, calc, home, rt, cmp, cart, adm, trd>>

\* the GET is not ok: the list is kept and the handler goes on
TdtReloadNotOk ==
    /\ mounted = "tdt"
    /\ \E req \in TdtReloads :
         /\ net' = net \ {req}
         /\ tdt' = TdtAfterReload(tdt, req.k[1])
    /\ UNCHANGED <<mounted, session, sim, calc, home, rt, cmp, cart, adm, trd>>

\* the GET threw: the catch of the handler that awaited the reload
TdtReloadThrew ==
    /\ mounted = "tdt"
    /\ \E req \in TdtReloads : net' = net \ {req}
    /\ tdt' = [tdt EXCEPT !.alertDialog = showAlert("Error")]
    /\ UNCHANGED <<mounted, session, sim, calc, home, rt, cmp, cart, adm, trd>>

\* handleExportCSV(): window.location.href = `${API_BASE_URL}/tariff-definitions/export`
TdtHandleExportCSV ==
    /\ TdtShown
    /\ ~TdtAddOpen /\ ~TdtEditOpen
    /\ net' = net \cup {navigate("tdt", "tariff-definitions/export")}
    /\ UNCHANGED <<mounted, session, sim, calc, home, tdt, rt, cmp, cart, adm, trd>>

\* the browser has the answer to the navigation
TdtExportAnswered ==
    /\ mounted = "tdt"
    /\ \E req \in net :
         /\ req.src = "tdt" /\ req.path = "tariff-definitions/export"
         /\ net' = net \ {req}
    /\ UNCHANGED <<mounted, session, sim, calc, home, tdt, rt, cmp, cart, adm, trd>>

\* the steps of loadTariffs
TdtLoadNext ==
    \/ TdtGlobalOk
    \/ TdtGlobalNotOk
    \/ TdtGlobalThrew
    \/ TdtModifiedOk
    \/ TdtModifiedNotOk
    \/ TdtModifiedThrew
    \/ TdtUserOk
    \/ TdtUserNotOk
    \/ TdtUserThrew
    \/ TdtOptionsOk
    \/ TdtOptionsNotOk
    \/ TdtOptionsThrew

TdtNext ==
    \/ TdtLoadNext
    \/ TdtCloseAlert
    \/ TdtOpenAddDialog
    \/ TdtCloseAddDialog
    \/ TdtChangeNewTariff
    \/ TdtHandleAddTariff
    \/ TdtAddOkSimulator
    \/ TdtAddOkAdmin
    \/ TdtAddRejected
    \/ TdtAddNotOk
    \/ TdtAddThrew
    \/ TdtHandleEditTariff
    \/ TdtCancelEdit
    \/ TdtCloseEditDialog
    \/ TdtHandleUpdateTariff
    \/ TdtUpdateOk
    \/ TdtUpdateNotOk
    \/ TdtUpdateThrew
    \/ TdtHandleDeleteTariff
    \/ TdtDeleteOk
    \/ TdtDeleteNotOk
    \/ TdtDeleteThrew
    \/ TdtReloadOk
    \/ TdtReloadNotOk
    \/ TdtReloadThrew
    \/ TdtHandleExportCSV
    \/ TdtExportAnswered

\* the items of the three filter Selects: "all" and the loaded options
TdtFilterOptions ==
    [product |-> {FILTER_ALL_VALUE, "Rice", "Wheat"},
     exportingFrom |-> {FILTER_ALL_VALUE, "SG", "MY"},
     importingTo |-> {FILTER_ALL_VALUE, "SG", "MY"}]

\* handleFilterChange(field, value)
handleFilterChange(t, field, value) ==
    [t EXCEPT !.filters[field] = IF value = FILTER_ALL_VALUE THEN "" ELSE value]

TdtHandleFilterChange ==
    /\ TdtShown
    /\ \E field \in DOMAIN TdtFilterOptions : \E value \in TdtFilterOptions[field] :
          tdt' = handleFilterChange(tdt, field, value)
    /\ UNCHANGED <<mounted, session, net, sim, calc, home, rt, cmp, cart, adm, trd>>

\* clearFilters(): setFilters(createInitialFilters())
TdtClearFilters ==
    /\ TdtShown
    /\ tdt' = [tdt EXCEPT !.filters = createInitialFilters]
    /\ UNCHANGED <<mounted, session, net, sim, calc, home, rt, cmp, cart, adm, trd>>

\* The filter card.  Its handlers write only `filters`, which is read only
\* to pick the rows shown: under a filter the rows that can be opened or
\* deleted are among those of the unfiltered table, which TdtNext covers.
TdtFilterNext == TdtHandleFilterChange \/ TdtClearFilters

----------------------------------------------------------------------------
(* AdminDashboard *)

AdmConstructed == [stats |-> Null, isLoading |-> TRUE, activeView |-> "overview"]

\* the mount effect: loadStats up to its fetch
AdmMountRequests == {fetch("adm", "GET", "admin/dashboard/stats")}

AdmReq(path) == {req \in net : req.src = "adm" /\ req.path = path}

\* the answer is ok: setStats(data)
AdmStatsOk ==
    /\ mounted = "adm"
    /\ \E req \in AdmReq("admin/dashboard/stats") : net' = net \ {req}
    /\ adm' = [adm EXCEPT !.stats = Some("stats"), !.isLoading = FALSE]
    /\ UNCHANGED <<mounted, session, sim, calc, home, tdt, rt, cmp, cart, trd>>

\* the answer is not ok: only the finally block runs
AdmStatsNotOk ==
    /\ mounted = "adm"
    /\ \E req \in AdmReq("admin/dashboard/stats") : net' = net \ {req}
    /\ adm' = [adm EXCEPT !.isLoading = FALSE]
    /\ UNCHANGED <<mounted, session, sim, calc, home, tdt, rt, cmp, cart, trd>>

AdmStatsThrew ==
    /\ mounted = "adm"
    /\ \E req \in AdmReq("admin/dashboard/stats") : net' = net \ {req}
    /\ adm' = [adm EXCEPT !.isLoading = FALSE]
    /\ UNCHANGED <<mounted, session, sim, calc, home, tdt, rt, cmp, cart, trd>>

\* the Export Data button:
\* window.location.href = getApiUrl("tariff-definitions/export")
AdmExportData ==
    /\ mounted = "adm"
    /\ ~adm.isLoading /\ adm.activeView = "overview"
    /\ net' = net \cup {navigate("adm", "tariff-definitions/export")}
    /\ UNCHANGED <<mounted, session, sim, calc, home, tdt, rt, cmp, cart, adm, trd>>

\* the browser has the answer to the navigation
AdmExportAnswered ==
    /\ mounted = "adm"
    /\ \E req \in AdmReq("tariff-definitions/export") : net' = net \ {req}
    /\ UNCHANGED <<mounted, session, sim, calc, home, tdt, rt, cmp, cart, adm, trd>>

\* the tabs and the Manage Tariffs button: setActiveView(view).  The table
\* the "tariffs" view renders is followed by the behaviours of TdtInit.
AdmSetActiveView ==
    /\ mounted = "adm"
    /\ ~adm.isLoading
    /\ \E view \in {"overview", "tariffs"} : adm' = [adm EXCEPT !.activeView = view]
    /\ UNCHANGED <<mounted, session, net, sim, calc, home, tdt, rt, cmp, cart, trd>>

AdmNext ==
    \/ AdmStatsOk
    \/ AdmStatsNotOk
    \/ AdmStatsThrew
    \/ AdmExportData
    \/ AdmExportAnswered
    \/ AdmSetActiveView

----------------------------------------------------------------------------
(* TariffComparisonPanel *)

CmpFieldValues ==
    [product |-> {"", "Rice"}, exportingFrom |-> {"", "SG"},
     importingToCountries |-> {<<>>, <<"MY">>},
     quantity |-> {"", "abc", "-1", "0", "1"}, customCost |-> {"", "abc", "-1", "0", "3"}]

INITIAL_FORM_DATA ==
    [product |-> "", exportingFrom |-> "", importingToCountries |-> <<>>, quantity |-> "1",
     customCost |-> "", currency |-> "USD"]

\* validateForm() without its custom unit cost check
validateFormCostUnchecked(f) ==
    IF f.product = "" \/ f.exportingFrom = "" \/ Len(f.importingToCountries) = 0
    THEN "Please select a product, an exporting country, and at least one importing country."
    ELSE IF IsNaN(parseFloat(f.quantity)) \/ LeqZero(parseFloat(f.quantity))
    THEN "Quantity must be greater than 0."
    ELSE ""

\* validateForm(): the error of the first failing check, "" when all pass
validateForm(f) ==
    IF f.product = "" \/ f.exportingFrom = "" \/ Len(f.importingToCountries) = 0
    THEN "Please select a product, an exporting country, and at least one importing country."
    ELSE IF IsNaN(parseFloat(f.quantity)) \/ LeqZero(parseFloat(f.quantity))
    THEN "Quantity must be greater than 0."
    ELSE IF f.customCost # ""
            /\ (IsNaN(parseFloat(f.customCost)) \/ LeqZero(parseFloat(f.customCost)))
    THEN "Custom unit cost must be greater than 0."
    ELSE ""

\* after construction and the mount effect: loadProductsAndCountries() and
\* loadCurrencies() have each run to their fetches
CmpConstructed ==
    [formData |-> INITIAL_FORM_DATA, currencies |-> FALLBACK_CURRENCIES,
     loadingOptions |-> TRUE, submitting |-> FALSE, error |-> Null, result |-> Null]

CmpMountRequests ==
    {fetchWith("cmp", "GET", "products", <<"options">>),
     fetchWith("cmp", "GET", "countries", <<"options">>),
     fetch("cmp", "GET", "tariffs/currencies")}

CmpReq(path) == {req \in net : req.src = "cmp" /\ req.path = path}

\* Promise.all of GET products and GET countries has both answers, read as
\* JSON whatever their status
CmpOptionsAnswered ==
    /\ mounted = "cmp"
    /\ CmpReq("products") # {} /\ CmpReq("countries") # {}
    /\ net' = net \ (CmpReq("products") \cup CmpReq("countries"))
    /\ cmp' = [cmp EXCEPT !.loadingOptions = FALSE]
    /\ UNCHANGED <<mounted, session, sim, calc, home, tdt, rt, cart, adm, trd>>

\* a fetch or a response.json() threw: the lists are emptied
CmpOptionsThrew ==
    /\ mounted = "cmp"
    /\ CmpReq("products") # {} /\ CmpReq("countries") # {}
    /\ net' = net \ (CmpReq("products") \cup CmpReq("countries"))
    /\ cmp' = [cmp EXCEPT !.loadingOptions = FALSE]
    /\ UNCHANGED <<mounted, session, sim, calc, home, tdt, rt, cart, adm, trd>>

\* loadCurrencies: ok with a non-empty payload.currency array
CmpCurrenciesOk ==
    /\ mounted = "cmp"
    /\ \E req \in CmpReq("tariffs/currencies") : \E currencyList \in ServerCurrencies :
         /\ net' = net \ {req}
         /\ cmp' = [cmp EXCEPT
                !.currencies = currencyList,
                !.formData.currency = IF @ \in Range(currencyList) THEN @ ELSE currencyList[1]]
    /\ UNCHANGED <<mounted, session, sim, calc, home, tdt, rt, cart, adm, trd>>

\* the catch block of loadCurrencies
CmpCurrenciesFallback ==
    [cmp EXCEPT !.currencies = FALLBACK_CURRENCIES,
                !.formData.currency = IF @ # "" THEN @ ELSE FALLBACK_CURRENCIES[1]]

\* ok, but payload.currency is empty or no array: "Currency list is empty"
CmpCurrenciesEmpty ==
    /\ mounted = "cmp"
    /\ \E req \in CmpReq("tariffs/currencies") : net' = net \ {req}
    /\ cmp' = CmpCurrenciesFallback
    /\ UNCHANGED <<mounted, session, sim, calc, home, tdt, rt, cart, adm, trd>>

\* not ok: `Failed to load currencies: ${response.status}`
CmpCurrenciesNotOk ==
    /\ mounted = "cmp"
    /\ \E req \in CmpReq("tariffs/currencies") : net' = net \ {req}
    /\ cmp' = CmpCurrenciesFallback
    /\ UNCHANGED <<mounted, session, sim, calc, home, tdt, rt, cart, adm, trd>>

\* getAuthToken, fetch or response.json() threw
CmpCurrenciesThrew ==
    /\ mounted = "cmp"
    /\ \E req \in CmpReq("tariffs/currencies") : net' = net \ {req}
    /\ cmp' = CmpCurrenciesFallback
    /\ UNCHANGED <<mounted, session, sim, calc, home, tdt, rt, cart, adm, trd>>

\* handleInputChange(field, value); the product and exporting-country
\* selects are disabled while loadingOptions
CmpHandleInputChange ==
    /\ mounted = "cmp"
    /\ \E field \in DOMAIN CmpFieldValues : \E value \in CmpFieldValues[field] :
         /\ field \in {"product", "exportingFrom"} => ~cmp.loadingOptions
         /\ cmp' = [cmp EXCEPT !.formData[field] = value, !.error = Null]
    /\ UNCHANGED <<mounted, session, net, sim, calc, home, tdt, rt, cart, adm, trd>>

\* the currency Select: handleInputChange("currency", code)
CmpSelectCurrency ==
    /\ mounted = "cmp"
    /\ \E code \in Range(cmp.currencies) :
          cmp' = [cmp EXCEPT !.formData.currency = code, !.error = Null]
    /\ UNCHANGED <<mounted, session, net, sim, calc, home, tdt, rt, cart, adm, trd>>

\* handleSubmit up to its fetch (the submit button is disabled while submitting)
CmpHandleSubmit ==
    /\ mounted = "cmp"
    /\ ~cmp.submitting
    /\ LET err == validateForm(cmp.formData) IN
       IF err # ""
       THEN /\ cmp' = [cmp EXCEPT !.error = Some(err)]
            /\ UNCHANGED net
       ELSE /\ cmp' = [cmp EXCEPT !.submitting = TRUE, !.error = Null, !.result = Null]
            /\ net' = net \cup {fetch("cmp", "POST", "tariffs/compare")}
    /\ UNCHANGED <<mounted, session, sim, calc, home, tdt, rt, cart, adm, trd>>

\* bodies of a failed comparison: {error: text} and {}
CmpErrorBodies == {"No tariff data", ""}

\* the answer is ok with body.success: setResult(body)
CmpCompareOk ==
    /\ mounted = "cmp"
    /\ \E req \in CmpReq("tariffs/compare") : net' = net \ {req}
    /\ cmp' = [cmp EXCEPT !.result = Some("comparison"), !.submitting = FALSE]
    /\ UNCHANGED <<mounted, session, sim, calc, home, tdt, rt, cart, adm, trd>>

\* !response.ok || !body.success:
\* throw new Error(body.error || "Comparison failed. Please try again.")
CmpCompareRejected ==
    /\ mounted = "cmp"
    /\ \E req \in CmpReq("tariffs/compare") : net' = net \ {req}
    /\ \E error \in CmpErrorBodies :
          cmp' = [cmp EXCEPT !.error = Some(IF error # "" THEN error
                                            ELSE "Comparison failed. Please try again."),
                             !.submitting = FALSE]
    /\ UNCHANGED <<mounted, session, sim, calc, home, tdt, rt, cart, adm, trd>>

\* fetch or response.json() threw: setError(err?.message || "Unable to ...")
CmpCompareThrew ==
    /\ mounted = "cmp"
    /\ \E req \in CmpReq("tariffs/compare") : net' = net \ {req}
    /\ \E message \in {"Failed to fetch", ""} :
          cmp' = [cmp EXCEPT !.error = Some(IF message # "" THEN message
                                            ELSE "Unable to complete comparison. Please try again."),
                             !.submitting = FALSE]
    /\ UNCHANGED <<mounted, session, sim, calc, home, tdt, rt, cart, adm, trd>>

CmpNext ==
    \/ CmpOptionsAnswered
    \/ CmpOptionsThrew
    \/ CmpCurrenciesOk
    \/ CmpCurrenciesEmpty
    \/ CmpCurrenciesNotOk
    \/ CmpCurrenciesThrew
    \/ CmpHandleInputChange
    \/ CmpSelectCurrency
    \/ CmpHandleSubmit
    \/ CmpCompareOk
    \/ CmpCompareRejected
    \/ CmpCompareThrew

----------------------------------------------------------------------------
(* ResultsTable({results, onAddToCart}), rendered by Home with
   results = calculationResults and onAddToCart = handleAddToCart, and by
   SimulatorCalculator with results = calculationResult and its own
   handleAddToCart *)

HTTP_STATUS_BAD_REQUEST == 400
HTTP_STATUS_NOT_FOUND == 404

\* statuses of an answer that is not ok
RtStatuses == {400, 404, 500}

\* bodies of such an answer: JSON with a message, with an error, with
\* neither; text that is no JSON; nothing
RtErrorBodies ==
    {[json |-> TRUE, message |-> "Item already in cart", error |-> "", text |-> "{...}"],
     [json |-> TRUE, message |-> "", error |-> "Invalid calculation", text |-> "{...}"],
     [json |-> TRUE, message |-> "", error |-> "", text |-> "{}"],
     [json |-> FALSE, message |-> "", error |-> "", text |-> "Gateway: already in cart"],
     [json |-> FALSE, message |-> "", error |-> "", text |-> ""]}

\* errorMessage.includes("already in cart"), for the messages above
includesAlreadyInCart(errorMessage) ==
    errorMessage \in {"Item already in cart", "Gateway: already in cart"}

\* parseErrorResponse(response)
parseErrorResponse(response) ==
    LET serverReturned == "Server returned " \o ToString(response.status)
        body == response.body
    IN  IF body.json
        THEN IF body.message # "" THEN body.message
             ELSE IF body.error # "" THEN body.error
             ELSE serverReturned
        ELSE IF body.text # "" THEN body.text ELSE serverReturned

\* every status reported alike
handleApiErrorAnyStatus(status, errorMessage) == "Failed to add to cart: " \o errorMessage

\* handleApiError, handleBadRequestError and handleNotFoundError: the text
\* given to setExportError
handleApiError(status, errorMessage) ==
    IF status = HTTP_STATUS_BAD_REQUEST
    THEN IF includesAlreadyInCart(errorMessage)
         THEN "This calculation is already in your export cart"
         ELSE "Failed to add to cart: " \o errorMessage
    ELSE IF status = HTTP_STATUS_NOT_FOUND
    THEN "Calculation not found in history. Please calculate again."
    ELSE "Failed to add to cart: " \o errorMessage

\* extractCalculationData(): results?.data || results
extractCalculationData(results) ==
    IF "data" \in DOMAIN results THEN results.data ELSE results

\* getCalculationId(): data?.calculationId
getCalculationId(results) == extractCalculationData(results).calculationId

\* the results prop, where a ResultsTable is rendered
RtResults ==
    IF mounted = "rt" THEN home.calculationResults
    ELSE IF mounted = "sim" THEN sim.calculationResult
    ELSE Null

\* onAddToCart(results) up to its first await.  Home's handleAddToCart runs
\* fetchCartCount; SimulatorCalculator's handleAddToCart only returns true,
\* and Home renders <SimulatorCalculator /> with no onCartCountChange.
onAddToCart == IF mounted = "rt" THEN {HomeCartCountRequest} ELSE {}

\* response is the answer handleAddingExport holds while it reads its body;
\* timer is the pending setTimeout of showSuccessMessage
RtConstructed ==
    [exportError |-> "", successMessage |-> "", debugInfo |-> "", pc |-> "idle",
     response |-> Null, timer |-> FALSE]

RtReq == {req \in net : req.src = "rt"}

\* no check of the data at all
validateCalculationDataSkipped(results) == ""

\* validateCalculationData(): the text given to setExportError, "" when the
\* data passes
validateCalculationData(results) ==
    IF results = Null THEN "No calculation data available"
    ELSE IF getCalculationId(results[1]) = ""
    THEN "Calculation ID not found. Please calculate again."
    ELSE ""

\* handleAddingExport up to addToCartApi's fetch; the button is rendered for
\* results that carry a breakdown.  The user followed here clicks once the
\* handler of the previous click is done.
RtHandleAddingExport ==
    /\ RtResults # Null
    /\ rt.pc = "idle"
    /\ LET err == validateCalculationData(RtResults)
           cleared == [rt EXCEPT !.exportError = "", !.successMessage = "", !.debugInfo = ""]
       IN  IF err # ""
           THEN /\ rt' = [cleared EXCEPT !.exportError = err]
                /\ UNCHANGED net
           ELSE /\ rt' = [cleared EXCEPT !.pc = "add"]
                /\ net' = net \cup {fetch("rt", "POST", "export-cart/add/"
                                                      \o getCalculationId(RtResults[1]))}
    /\ UNCHANGED <<mounted, session, sim, calc, home, tdt, cmp, cart, adm, trd>>

\* the answer is ok: showSuccessMessage, then onAddToCart(results)
RtAddOk ==
    /\ RtResults # Null
    /\ rt.pc = "add"
    /\ \E req \in RtReq : net' = (net \ {req}) \cup onAddToCart
    /\ rt' = [rt EXCEPT !.successMessage = "Calculation added to export cart successfully!",
                        !.timer = TRUE, !.pc = "idle"]
    /\ UNCHANGED <<mounted, session, sim, calc, home, tdt, cmp, cart, adm, trd>>

\* the answer is not ok: handleApiError up to response.text()
RtAddNotOk ==
    /\ RtResults # Null
    /\ rt.pc = "add"
    /\ \E req \in RtReq : net' = net \ {req}
    /\ \E status \in RtStatuses : \E body \in RtErrorBodies :
          rt' = [rt EXCEPT !.pc = "text", !.response = Some([status |-> status, body |-> body])]
    /\ UNCHANGED <<mounted, session, sim, calc, home, tdt, cmp, cart, adm, trd>>

\* the body is read: the rest of handleApiError
RtErrorRead ==
    /\ RtResults # Null
    /\ rt.pc = "text"
    /\ rt' = [rt EXCEPT !.exportError = handleApiError(rt.response[1].status,
                                                       parseErrorResponse(rt.response[1])),
                        !.pc = "idle", !.response = Null]
    /\ UNCHANGED <<mounted, session, net, sim, calc, home, tdt, cmp, cart, adm, trd>>

\* getAuthToken or fetch threw: the catch of handleAddingExport
RtAddThrew ==
    /\ RtResults # Null
    /\ rt.pc = "add"
    /\ \E req \in RtReq : net' = net \ {req}
    /\ rt' = [rt EXCEPT !.exportError = "Failed to add to cart: " \o "Failed to fetch",
                        !.pc = "idle"]
    /\ UNCHANGED <<mounted, session, sim, calc, home, tdt, cmp, cart, adm, trd>>

\* setTimeout(() => setSuccessMessage(""), SUCCESS_MESSAGE_DURATION)
RtSuccessTimeout ==
    /\ RtResults # Null
    /\ rt.timer
    /\ rt' = [rt EXCEPT !.successMessage = "", !.timer = FALSE]
    /\ UNCHANGED <<mounted, session, net, sim, calc, home, tdt, cmp, cart, adm, trd>>

RtNext ==
    \/ RtHandleAddingExport
    \/ RtAddOk
    \/ RtAddNotOk
    \/ RtErrorRead
    \/ RtAddThrew
    \/ RtSuccessTimeout
    \/ HomeCartCountOk
    \/ HomeCartCountZero

----------------------------------------------------------------------------
(* ExportCartWithHistory({onCartCountChange}), rendered by Home with
   onCartCountChange = fetchCartCount *)

\* the histories the backend may answer GET tariff/history with
ServerHistoryItems == {<<>>, <<"h1", "h2">>}


\* (result || []).filter((item) => !cartIds.has(item.id))
FilterNotInCart(result, cartItems) ==
    SelectSeq(result, LAMBDA id : id \notin Range(cartItems))

\* op, todo, successCount and closure are what the running handler holds:
\* which handler it is, the selected ids its loop has still to send, its
\* count, and the cartItems of the render it was called in.  successTimer is
\* the pending setTimeout that clears the success message.
CartConstructed ==
    [cartItems |-> <<>>, historyItems |-> <<>>,
     selectedCartItems |-> {}, selectedHistoryItems |-> {},
     isLoadingCart |-> TRUE, isLoadingHistory |-> TRUE,
     error |-> "", successMessage |-> "", showDownloadDialog |-> FALSE,
     pc |-> "idle", op |-> "", todo |-> {}, successCount |-> 0, closure |-> <<>>,
     successTimer |-> FALSE]

\* a request of the cart's; k = <<the handler that awaits it, the cartItems
\* its closure holds>>
CartFetch(method, path, by, closure) == fetchWith("cart", method, path, <<by, closure>>)

CartReq(path) == {req \in net : req.src = "cart" /\ req.path = path}

\* the mount effect: loadCartItems() and loadHistory(), each up to its fetch
CartMountRequests ==
    {CartFetch("GET", "export-cart", "effect", <<>>),
     CartFetch("GET", "tariff/history", "effect", <<>>)}

\* what follows loadCartItems when a handler awaited it: loadHistory
CartAfterLoadCart(req) ==
    IF req.k[1] = "handler"
    THEN {CartFetch("GET", "tariff/history", "handler", req.k[2])}
    ELSE {}

\* loadCartItems: 204, setCartItems([])
CartLoadCartNoContent ==
    /\ mounted = "cart"
    /\ \E req \in CartReq("export-cart") :
         /\ net' = (net \ {req}) \cup CartAfterLoadCart(req)
         /\ cart' = [cart EXCEPT !.cartItems = <<>>, !.isLoadingCart = FALSE,
                                 !.isLoadingHistory = IF req.k[1] = "handler" THEN TRUE ELSE @,
                                 !.pc = IF req.k[1] = "handler" THEN "loadHistory" ELSE @]
    /\ UNCHANGED <<mounted, session, sim, calc, home, tdt, rt, cmp, adm, trd>>

\* loadCartItems: ok, setCartItems(result || [])
CartLoadCartOk ==
    /\ mounted = "cart"
    /\ \E req \in CartReq("export-cart") : \E result \in ServerCartItems :
         /\ net' = (net \ {req}) \cup CartAfterLoadCart(req)
         /\ cart' = [cart EXCEPT !.cartItems = result, !.isLoadingCart = FALSE,
                                 !.isLoadingHistory = IF req.k[1] = "handler" THEN TRUE ELSE @,
                                 !.pc = IF req.k[1] = "handler" THEN "loadHistory" ELSE @]
    /\ UNCHANGED <<mounted, session, sim, calc, home, tdt, rt, cmp, adm, trd>>

\* the catch of loadCartItems
CartLoadCartFailed(req) ==
    /\ net' = (net \ {req}) \cup CartAfterLoadCart(req)
    /\ cart' = [cart EXCEPT !.error = "Failed to load export cart", !.isLoadingCart = FALSE,
                            !.isLoadingHistory = IF req.k[1] = "handler" THEN TRUE ELSE @,
                            !.pc = IF req.k[1] = "handler" THEN "loadHistory" ELSE @]

\* loadCartItems: not ok
CartLoadCartNotOk ==
    /\ mounted = "cart"
    /\ \E req \in CartReq("export-cart") : CartLoadCartFailed(req)
    /\ UNCHANGED <<mounted, session, sim, calc, home, tdt, rt, cmp, adm, trd>>

\* loadCartItems: the fetch or response.json() threw
CartLoadCartThrew ==
    /\ mounted = "cart"
    /\ \E req \in CartReq("export-cart") : CartLoadCartFailed(req)
    /\ UNCHANGED <<mounted, session, sim, calc, home, tdt, rt, cmp, adm, trd>>

\* what follows loadHistory when a handler awaited it: onCartCountChange(),
\* which is Home's fetchCartCount, and the handler is done
CartAfterLoadHistory(req) ==
    IF req.k[1] = "handler" THEN {HomeCartCountRequest} ELSE {}

CartHistoryLoaded(req, c) ==
    /\ net' = (net \ {req}) \cup CartAfterLoadHistory(req)
    /\ cart' = IF req.k[1] = "handler"
               THEN [c EXCEPT !.isLoadingHistory = FALSE, !.pc = "idle", !.op = "",
                              !.closure = <<>>]
               ELSE [c EXCEPT !.isLoadingHistory = FALSE]

\* loadHistory: 204, setHistoryItems([])
CartLoadHistoryNoContent ==
    /\ mounted = "cart"
    /\ \E req \in CartReq("tariff/history") :
         CartHistoryLoaded(req, [cart EXCEPT !.historyItems = <<>>])
    /\ UNCHANGED <<mounted, session, sim, calc, home, tdt, rt, cmp, adm, trd>>

\* loadHistory: ok; the items of the closure's cartItems are filtered out
CartLoadHistoryOk ==
    /\ mounted = "cart"
    /\ \E req \in CartReq("tariff/history") : \E result \in ServerHistoryItems :
         CartHistoryLoaded(req, [cart EXCEPT !.historyItems = FilterNotInCart(result, req.k[2])])
    /\ UNCHANGED <<mounted, session, sim, calc, home, tdt, rt, cmp, adm, trd>>

\* loadHistory: not ok, caught without a message
CartLoadHistoryNotOk ==
    /\ mounted = "cart"
    /\ \E req \in CartReq("tariff/history") : CartHistoryLoaded(req, cart)
    /\ UNCHANGED <<mounted, session, sim, calc, home, tdt, rt, cmp, adm, trd>>

\* loadHistory: the fetch or response.json() threw
CartLoadHistoryThrew ==
    /\ mounted = "cart"
    /\ \E req \in CartReq("tariff/history") : CartHistoryLoaded(req, cart)
    /\ UNCHANGED <<mounted, session, sim, calc, home, tdt, rt, cmp, adm, trd>>

\* the user followed here clicks once the loads and the handler of the
\* previous click are done
CartShown == mounted = "cart" /\ cart.pc = "idle" /\ {req \in net : req.src = "cart"} = {}

\* the cart's table and buttons are rendered
CartTableShown == CartShown /\ ~cart.isLoadingCart /\ Len(cart.cartItems) > 0

\* the refresh button of the history: loadHistory()
CartRefreshHistory ==
    /\ CartShown
    /\ cart' = [cart EXCEPT !.isLoadingHistory = TRUE]
    /\ net' = net \cup {CartFetch("GET", "tariff/history", "button", cart.cartItems)}
    /\ UNCHANGED <<mounted, session, sim, calc, home, tdt, rt, cmp, adm, trd>>

Toggle(selected, id) == IF id \in selected THEN selected \ {id} ELSE selected \cup {id}

\* handleSelectCartItem(item.id), for a row of the cart
CartSelectCartItem ==
    /\ CartTableShown
    /\ \E id \in Range(cart.cartItems) :
          cart' = [cart EXCEPT !.selectedCartItems = Toggle(@, id)]
    /\ UNCHANGED <<mounted, session, net, sim, calc, home, tdt, rt, cmp, adm, trd>>

\* handleSelectAllCart()
CartSelectAllCart ==
    /\ CartTableShown
    /\ cart' = [cart EXCEPT !.selectedCartItems =
                   IF Cardinality(@) = Len(cart.cartItems) THEN {} ELSE Range(cart.cartItems)]
    /\ UNCHANGED <<mounted, session, net, sim, calc, home, tdt, rt, cmp, adm, trd>>

\* handleSelectHistoryItem(item.id), for a row of the history
CartSelectHistoryItem ==
    /\ CartShown
    /\ ~cart.isLoadingHistory
    /\ \E id \in Range(cart.historyItems) :
          cart' = [cart EXCEPT !.selectedHistoryItems = Toggle(@, id)]
    /\ UNCHANGED <<mounted, session, net, sim, calc, home, tdt, rt, cmp, adm, trd>>

Plural(n) == IF n # 1 THEN "s" ELSE ""

\* the request of the loop for one selected id
CartItemRequest(op, id, closure) ==
    IF op = "delete" THEN CartFetch("DELETE", "export-cart/remove/" \o id, "item", closure)
    ELSE CartFetch("POST", "export-cart/add/" \o id, "item", closure)

\* handleDeleteFromCart, confirmed, up to the first fetch of its loop (the
\* Delete button is disabled while nothing is selected)
CartHandleDeleteFromCart ==
    /\ CartTableShown
    /\ cart.selectedCartItems # {}
    /\ \E id \in cart.selectedCartItems :
         /\ cart' = [cart EXCEPT !.error = "", !.pc = "item", !.op = "delete",
                                 !.todo = cart.selectedCartItems \ {id},
                                 !.successCount = 0, !.closure = cart.cartItems]
         /\ net' = net \cup {CartItemRequest("delete", id, cart.cartItems)}
    /\ UNCHANGED <<mounted, session, sim, calc, home, tdt, rt, cmp, adm, trd>>

\* handleAddToCart up to the first fetch of its loop (the Add to Cart button
\* is disabled while nothing is selected)
CartHandleAddToCart ==
    /\ CartShown
    /\ ~cart.isLoadingHistory /\ Len(cart.historyItems) > 0
    /\ cart.selectedHistoryItems # {}
    /\ \E id \in cart.selectedHistoryItems :
         /\ cart' = [cart EXCEPT !.error = "", !.pc = "item", !.op = "add",
                                 !.todo = cart.selectedHistoryItems \ {id},
                                 !.successCount = 0, !.closure = cart.cartItems]
         /\ net' = net \cup {CartItemRequest("add", id, cart.cartItems)}
    /\ UNCHANGED <<mounted, session, sim, calc, home, tdt, rt, cmp, adm, trd>>

\* loadCartItems() up to its fetch, awaited by a handler
CartReload(c) ==
    [cart |-> [c EXCEPT !.isLoadingCart = TRUE, !.pc = "loadCart"],
     sent |-> {CartFetch("GET", "export-cart", "handler", c.closure)}]

\* the loop has the answer for one id and successCount stands at count: the
\* next id is sent, or the loop is over; if (successCount > 0) the success
\* message is set, the selection emptied and the lists reloaded
CartLoopStep(req, count) ==
    IF cart.todo # {}
    THEN \E id \in cart.todo :
           /\ cart' = [cart EXCEPT !.todo = @ \ {id}, !.successCount = count]
           /\ net' = (net \ {req}) \cup {CartItemRequest(cart.op, id, cart.closure)}
    ELSE IF count > 0
    THEN LET message == IF cart.op = "delete"
                        THEN "Successfully deleted " \o ToString(count) \o " item"
                                \o Plural(count)
                        ELSE "Successfully added " \o ToString(count) \o " item"
                                \o Plural(count) \o " to cart"
             done == [cart EXCEPT !.successCount = count, !.successMessage = message,
                                  !.successTimer = TRUE,
                                  !.selectedCartItems = IF cart.op = "delete" THEN {} ELSE @,
                                  !.selectedHistoryItems = IF cart.op = "add" THEN {} ELSE @]
         IN  /\ cart' = CartReload(done).cart
             /\ net' = (net \ {req}) \cup CartReload(done).sent
    ELSE /\ cart' = [cart EXCEPT !.successCount = count, !.pc = "idle", !.op = "",
                                 !.closure = <<>>]
         /\ net' = net \ {req}

CartItemReq == {req \in net : req.src = "cart" /\ req.k[1] = "item"}

\* the answer for an id is ok: successCount++
CartItemOk ==
    /\ mounted = "cart"
    /\ cart.pc = "item"
    /\ \E req \in CartItemReq : CartLoopStep(req, cart.successCount + 1)
    /\ UNCHANGED <<mounted, session, sim, calc, home, tdt, rt, cmp, adm, trd>>

\* the answer for an id is not ok: nothing is counted
CartItemNotOk ==
    /\ mounted = "cart"
    /\ cart.pc = "item"
    /\ \E req \in CartItemReq : CartLoopStep(req, cart.successCount)
    /\ UNCHANGED <<mounted, session, sim, calc, home, tdt, rt, cmp, adm, trd>>

\* the fetch for an id threw: the catch inside the loop
CartItemThrew ==
    /\ mounted = "cart"
    /\ cart.pc = "item"
    /\ \E req \in CartItemReq : CartLoopStep(req, cart.successCount)
    /\ UNCHANGED <<mounted, session, sim, calc, home, tdt, rt, cmp, adm, trd>>

\* handleClearCart, confirmed, up to its fetch
CartHandleClearCart ==
    /\ CartTableShown
    /\ cart' = [cart EXCEPT !.error = "", !.pc = "clear", !.op = "clear",
                            !.closure = cart.cartItems]
    /\ net' = net \cup {CartFetch("DELETE", "export-cart/clear", "clear", cart.cartItems)}
    /\ UNCHANGED <<mounted, session, sim, calc, home, tdt, rt, cmp, adm, trd>>

\* the answer is ok
CartClearOk ==
    /\ mounted = "cart"
    /\ cart.pc = "clear"
    /\ \E req \in CartReq("export-cart/clear") :
         LET done == [cart EXCEPT !.successMessage = "Export cart cleared successfully",
                                  !.successTimer = TRUE, !.selectedCartItems = {}]
         IN  /\ cart' = CartReload(done).cart
             /\ net' = (net \ {req}) \cup CartReload(done).sent
    /\ UNCHANGED <<mounted, session, sim, calc, home, tdt, rt, cmp, adm, trd>>

\* the catch of handleClearCart
CartClearFailed ==
    /\ \E req \in CartReq("export-cart/clear") : net' = net \ {req}
    /\ cart' = [cart EXCEPT !.error = "Failed to clear cart", !.pc = "idle", !.op = "",
                            !.closure = <<>>]

\* the answer is not ok: throw new Error("Failed to clear cart")
CartClearNotOk ==
    /\ mounted = "cart"
    /\ cart.pc = "clear"
    /\ CartClearFailed
    /\ UNCHANGED <<mounted, session, sim, calc, home, tdt, rt, cmp, adm, trd>>

CartClearThrew ==
    /\ mounted = "cart"
    /\ cart.pc = "clear"
    /\ CartClearFailed
    /\ UNCHANGED <<mounted, session, sim, calc, home, tdt, rt, cmp, adm, trd>>

\* a confirm() of handleDeleteFromCart or handleClearCart is declined
CartConfirmDeclined ==
    /\ CartTableShown
    /\ UNCHANGED <<cart, net>>
    /\ UNCHANGED <<mounted, session, sim, calc, home, tdt, rt, cmp, adm, trd>>

\* handleDownloadCart up to its fetch (the Download CSV button is rendered
\* for a cart that is not empty)
CartHandleDownloadCart ==
    /\ CartTableShown
    /\ cart' = [cart EXCEPT !.error = "", !.showDownloadDialog = FALSE, !.pc = "download",
                            !.op = "download"]
    /\ net' = net \cup {CartFetch("GET", "export-cart/export", "download", <<>>)}
    /\ UNCHANGED <<mounted, session, sim, calc, home, tdt, rt, cmp, adm, trd>>

\* the answer is ok: the blob is saved
CartDownloadOk ==
    /\ mounted = "cart"
    /\ cart.pc = "download"
    /\ \E req \in CartReq("export-cart/export") : net' = net \ {req}
    /\ cart' = [cart EXCEPT !.successMessage = "Successfully downloaded cart as CSV",
                            !.successTimer = TRUE, !.pc = "idle", !.op = ""]
    /\ UNCHANGED <<mounted, session, sim, calc, home, tdt, rt, cmp, adm, trd>>

\* the catch of handleDownloadCart
CartDownloadFailed ==
    /\ \E req \in CartReq("export-cart/export") : net' = net \ {req}
    /\ cart' = [cart EXCEPT !.error = "Failed to download CSV", !.pc = "idle", !.op = ""]

\* the answer is not ok: throw new Error("Failed to download CSV")
CartDownloadNotOk ==
    /\ mounted = "cart"
    /\ cart.pc = "download"
    /\ CartDownloadFailed
    /\ UNCHANGED <<mounted, session, sim, calc, home, tdt, rt, cmp, adm, trd>>

CartDownloadThrew ==
    /\ mounted = "cart"
    /\ cart.pc = "download"
    /\ CartDownloadFailed
    /\ UNCHANGED <<mounted, session, sim, calc, home, tdt, rt, cmp, adm, trd>>

\* setTimeout(() => setSuccessMessage(""), 3000)
CartSuccessTimeout ==
    /\ mounted = "cart"
    /\ cart.successTimer
    /\ cart' = [cart EXCEPT !.successMessage = "", !.successTimer = FALSE]
    /\ UNCHANGED <<mounted, session, net, sim, calc, home, tdt, rt, cmp, adm, trd>>

CartNext ==
    \/ CartLoadCartNoContent
    \/ CartLoadCartOk
    \/ CartLoadCartNotOk
    \/ CartLoadCartThrew
    \/ CartLoadHistoryNoContent
    \/ CartLoadHistoryOk
    \/ CartLoadHistoryNotOk
    \/ CartLoadHistoryThrew
    \/ CartRefreshHistory
    \/ CartSelectCartItem
    \/ CartSelectAllCart
    \/ CartSelectHistoryItem
    \/ CartHandleDeleteFromCart
    \/ CartHandleAddToCart
    \/ CartItemOk
    \/ CartItemNotOk
    \/ CartItemThrew
    \/ CartHandleClearCart
    \/ CartClearOk
    \/ CartClearNotOk
    \/ CartClearThrew
    \/ CartConfirmDeclined
    \/ CartHandleDownloadCart
    \/ CartDownloadOk
    \/ CartDownloadNotOk
    \/ CartDownloadThrew
    \/ CartSuccessTimeout
    \/ HomeCartCountOk
    \/ HomeCartCountZero

----------------------------------------------------------------------------
(* TariffTrendsVisualization, rendered by Home *)

MAX_LINES == 10

\* what TariffFilters can hand to onFilterChange: each list is a selection of
\* the options, here the first n of them; dateRange stays as constructed
TrdFilterChoices ==
    [importCountries : {SubSeq(<<"SG", "MY", "US", "CN", "IN", "JP">>, 1, n) : n \in {0, 1, 5, 6}},
     exportCountries : {SubSeq(<<"CN", "IN">>, 1, n) : n \in 0..2},
     products : {SubSeq(<<"Rice", "Wheat">>, 1, n) : n \in 0..2},
     dateRange : {[start |-> "2020-01-01", end |-> "2024-12-31"]}]

\* result.data of an ok answer of GET /tariff-trends
ServerTrends ==
    {<<>>,
     <<[importCountry |-> "SG", exportCountry |-> "CN", product |-> "Rice",
        dataPoints |-> <<[date |-> "2020-01-01", rate |-> Num(500)]>>]>>}

TrdConstructed ==
    [filters |-> [exportCountries |-> <<>>, importCountries |-> <<>>, products |-> <<>>,
                  dateRange |-> [start |-> "2020-01-01", end |-> "2024-12-31"]],
     chartData |-> <<>>, loading |-> FALSE, error |-> Null]

\* importCountries.length * exportCountries.length * products.length
totalLinesSummed(f) == Len(f.importCountries) + Len(f.exportCountries) + Len(f.products)

totalLines(f) == Len(f.importCountries) * Len(f.exportCountries) * Len(f.products)

\* fetchTariffTrendsData up to its fetch: the filters are the query string
fetchTariffTrendsData(filters) == fetchWith("trd", "GET", "tariff-trends", filters)

colors ==
    <<"#3b82f6", "#10b981", "#f59e0b", "#ef4444", "#8b5cf6",
      "#ec4899", "#14b8a6", "#f97316", "#06b6d4", "#84cc16">>

formatTariffSeriesData(data) ==
    [index \in 1..Len(data) |->
        [id |-> <<data[index].importCountry, data[index].exportCountry, data[index].product>>,
         importCountry |-> data[index].importCountry,
         exportCountry |-> data[index].exportCountry,
         product |-> data[index].product,
         data |-> [i \in 1..Len(data[index].dataPoints) |->
                      [date |-> data[index].dataPoints[i].date,
                       tariffRate |-> data[index].dataPoints[i].rate]],
         color |-> colors[((index - 1) % Len(colors)) + 1]]]

\* handleFilterChange(newFilters) up to its await, or to its early return
TrdHandleFilterChange ==
    /\ mounted = "trd"
    /\ \E newFilters \in TrdFilterChoices :
        IF Len(newFilters.importCountries) = 0 \/ Len(newFilters.exportCountries) = 0
              \/ Len(newFilters.products) = 0
        THEN /\ trd' = [trd EXCEPT !.filters = newFilters,
                                   !.error = Some(<<"Please fill in all the boxes">>),
                                   !.chartData = <<>>]
             /\ UNCHANGED net
        ELSE IF totalLines(newFilters) > MAX_LINES
        THEN /\ trd' = [trd EXCEPT !.filters = newFilters,
                                   !.error = Some(<<"Too many combinations", totalLines(newFilters)>>),
                                   !.chartData = <<>>]
             /\ UNCHANGED net
        ELSE /\ trd' = [trd EXCEPT !.filters = newFilters, !.error = Null, !.loading = TRUE]
             /\ net' = net \cup {fetchTariffTrendsData(newFilters)}
    /\ UNCHANGED <<mounted, session, sim, calc, home, tdt, rt, cmp, cart, adm>>

\* the answer is ok with success and data: setChartData(data), setLoading(false)
TrdFetchOk ==
    /\ \E req \in net, data \in ServerTrends :
        /\ req.src = "trd"
        /\ net' = net \ {req}
        /\ trd' = [trd EXCEPT !.chartData = formatTariffSeriesData(data), !.loading = FALSE]
    /\ UNCHANGED <<mounted, session, sim, calc, home, tdt, rt, cmp, cart, adm>>

\* the answer is not ok, or carries no success or no data, or the fetch threw
TrdFetchFailed ==
    /\ \E req \in net :
        /\ req.src = "trd"
        /\ net' = net \ {req}
        /\ trd' = [trd EXCEPT !.error = Some(<<"Unable to load tariff data. Please try again later.">>),
                              !.chartData = <<>>, !.loading = FALSE]
    /\ UNCHANGED <<mounted, session, sim, calc, home, tdt, rt, cmp, cart, adm>>

TrdNext == TrdHandleFilterChange \/ TrdFetchOk \/ TrdFetchFailed

----------------------------------------------------------------------------
(* Specifications: one per mounted component *)

Constructed ==
    /\ session \in Tokens
    /\ sim = SimConstructed
    /\ calc = CalcConstructed
    /\ home = HomeInit
    /\ tdt = TdtConstructed("admin", FALSE)
    /\ rt = RtConstructed
    /\ cmp = CmpConstructed
    /\ cart = CartConstructed
    /\ adm = AdmConstructed /\ trd = TrdConstructed

SimInit ==
    /\ mounted = "sim"
    /\ Constructed
    /\ net = {}

CalcInit ==
    /\ mounted = "calc"
    /\ Constructed
    /\ net = CalcMountRequests

\* the table as a page of its own: either role, either mode
TdtInit ==
    /\ mounted = "tdt"
    /\ session \in Tokens
    /\ sim = SimConstructed /\ calc = CalcConstructed /\ home = HomeInit
    /\ rt = RtConstructed /\ cmp = CmpConstructed /\ cart = CartConstructed /\ adm = AdmConstructed /\ trd = TrdConstructed
    /\ \E userRole \in {"admin", "user"} : \E simulatorMode \in BOOLEAN :
          tdt = TdtConstructed(userRole, simulatorMode)
    /\ net = TdtMountRequests(tdt)

AdmInit ==
    /\ mounted = "adm"
    /\ Constructed
    /\ net = AdmMountRequests

\* the results shown are those of a calculation Home has been given, with
\* or without an id in its data
RtInit ==
    /\ mounted = "rt"
    /\ session \in Tokens
    /\ sim = SimConstructed /\ calc = CalcConstructed /\ tdt = TdtConstructed("admin", FALSE)
    /\ rt = RtConstructed /\ cmp = CmpConstructed /\ cart = CartConstructed /\ adm = AdmConstructed /\ trd = TrdConstructed
    /\ \E id \in LatestIds : \E count \in {0, 1} :
          home = handleCalculationComplete([HomeInit EXCEPT !.cartCount = count],
                                           [calculationId |-> id])
    /\ net = {}

SpecRt == RtInit /\ [][RtNext]_vars

\* the simulator with a result on display, its ResultsTable below the form
SimRtInit ==
    /\ mounted = "sim"
    /\ session \in Tokens
    /\ \E id \in {"h1", "h2", LocalId} :
         LET f == [SimInitialFormData EXCEPT !.product = "Rice", !.unit = "kg",
                      !.exportingFrom = "SG", !.importingTo = "MY", !.tariffRate = "10",
                      !.quantity = "2", !.customCost = "3"]
         IN  sim = [SimConstructed EXCEPT !.formData = f,
                       !.calculationResult = Some([SimCalculate(f) EXCEPT !.calculationId = id])]
    /\ calc = CalcConstructed /\ tdt = TdtConstructed("admin", FALSE)
    /\ rt = RtConstructed /\ cmp = CmpConstructed /\ cart = CartConstructed /\ adm = AdmConstructed /\ trd = TrdConstructed
    /\ home = HomeInit
    /\ net = {}

CartInit ==
    /\ mounted = "cart"
    /\ Constructed
    /\ net = CartMountRequests

SpecCart == CartInit /\ [][CartNext]_vars

\* every way the UI changes the export cart: the ResultsTable of the
\* dashboard, the ResultsTable of the simulator, and the cart's own view
SpecCartCount == (RtInit \/ SimRtInit \/ CartInit) /\ [][RtNext \/ CartNext]_vars

CmpInit ==
    /\ mounted = "cmp"
    /\ Constructed
    /\ net = CmpMountRequests

\* the two components that load the currency list
SpecCurrencies == (CalcInit \/ CmpInit) /\ [][CalcNext \/ CmpNext]_vars

TrdInit ==
    /\ mounted = "trd"
    /\ Constructed
    /\ net = {}

SpecTrends == TrdInit /\ [][TrdNext]_vars

\* the two calculators and the load of the tariff definitions
SpecRequests ==
    (SimInit \/ CalcInit \/ TdtInit) /\ [][SimNext \/ CalcNext \/ TdtLoadNext]_vars

\* the tariff definitions, reached as a page or through the admin dashboard
\* tariffs of two routes the backend may hold: global-1 and global-3 are
\* for the same product and countries, as are admin-modified-1 and
\* admin-modified-2
MergeGlobalPool ==
    {Tariff("global-1", "Rice", "SG", "MY", Num(500)),
     Tariff("global-2", "Wheat", "SG", "MY", Num(500)),
     Tariff("global-3", "Rice", "SG", "MY", Num(0))}
MergeModifiedPool ==
    {Tariff("admin-modified-1", "Rice", "SG", "MY", Num(0)),
     Tariff("admin-modified-2", "Rice", "SG", "MY", Num(500)),
     Tariff("admin-modified-3", "Wheat", "SG", "MY", Num(0))}

\* the lists of at most two different tariffs of a pool
ListsOf(pool) ==
    {<<>>} \cup {<<a>> : a \in pool}
           \cup {pair \in pool \X pool : pair[1] # pair[2]}

\* the admin's table once loadTariffs is done, for every pair of lists the
\* backend may have answered with
MergeInit ==
    /\ mounted = "tdt"
    /\ session \in Tokens
    /\ sim = SimConstructed /\ calc = CalcConstructed /\ home = HomeInit
    /\ rt = RtConstructed /\ cmp = CmpConstructed /\ cart = CartConstructed /\ adm = AdmConstructed /\ trd = TrdConstructed
    /\ \E globalTariffs \in ListsOf(MergeGlobalPool) :
       \E modifiedGlobalTariffs \in ListsOf(MergeModifiedPool) :
          tdt = [TdtConstructed("admin", FALSE) EXCEPT
                    !.globalTariffs = globalTariffs,
                    !.modifiedGlobalTariffs = modifiedGlobalTariffs,
                    !.isLoading = FALSE]
    /\ net = {}

MaxRows == 3

FilterPool ==
    {Tariff("global-1", "Rice", "SG", "MY", Num(500)),
     Tariff("global-2", "Wheat", "SG", "MY", Num(500)),
     Tariff("global-3", "Rice", "MY", "SG", Num(0)),
     Tariff("global-4", "Wheat", "MY", "SG", Num(0))}

\* the lists of at most MaxRows different tariffs of the pool, in any order
FilterLists ==
    {list \in UNION {[1..n -> FilterPool] : n \in 0..MaxRows} :
        \A i, j \in DOMAIN list : i # j => list[i] # list[j]}

\* the table once loadTariffs is done: the simulator's table with the
\* user's tariffs, or the global table with or without a modified tariff
FilterInit ==
    /\ mounted = "tdt"
    /\ session \in Tokens
    /\ sim = SimConstructed /\ calc = CalcConstructed /\ home = HomeInit
    /\ rt = RtConstructed /\ cmp = CmpConstructed /\ cart = CartConstructed /\ adm = AdmConstructed /\ trd = TrdConstructed
    /\ \E tariffs \in FilterLists :
          \/ tdt = [TdtConstructed("general", TRUE) EXCEPT
                       !.userTariffs = tariffs, !.isLoading = FALSE]
          \/ \E modifiedGlobalTariffs \in
                   {<<>>, <<Tariff("admin-modified-1", "Rice", "SG", "MY", Num(0))>>} :
                tdt = [TdtConstructed("admin", FALSE) EXCEPT
                          !.globalTariffs = tariffs,
                          !.modifiedGlobalTariffs = modifiedGlobalTariffs,
                          !.isLoading = FALSE]
    /\ net = {}

\* the table is filtered and its rows are opened for editing
SpecFilters ==
    FilterInit /\ [][TdtFilterNext \/ TdtHandleEditTariff \/ TdtCancelEdit \/ TdtCloseEditDialog]_vars

\* the merged list is rendered and its rows are opened for editing
SpecMerge == MergeInit /\ [][TdtHandleEditTariff \/ TdtCancelEdit \/ TdtCloseEditDialog]_vars

SpecTdt == (TdtInit \/ AdmInit) /\ [][TdtNext \/ AdmNext]_vars

SpecSim == SimInit /\ [][SimNext]_vars

SpecCalc == CalcInit /\ [][CalcNext]_vars

----------------------------------------------------------------------------
(* Claims *)

IsPositiveNumber(x) == ~IsNaN(x) /\ Val(x) > 0
IsNonNegativeNumber(x) == ~IsNaN(x) /\ Val(x) >= 0

\* C2: every result the simulator displays has productCost = unitCost x
\* quantity, tariffCost = productCost x tariffRate / 100 for a percentage
\* tariff and tariffRate x quantity for a fixed one, totalCost = productCost
\* + tariffCost, and two breakdown rows whose amounts sum to totalCost.
C2_SimulatorTotals ==
    [][sim'.calculationResult # sim.calculationResult =>
        LET f == sim.formData
            r == sim'.calculationResult[1]
            quantity == parseFloat(f.quantity)
            unitCost == parseFloat(f.customCost)
            tariffRate == parseFloat(f.tariffRate)
        IN  /\ r.productCost = Mul(unitCost, quantity)
            /\ f.tariffType = "percentage"
                 => r.tariffCost = DivHundred(Mul(r.productCost, tariffRate))
            /\ f.tariffType = "fixed" => r.tariffCost = Mul(tariffRate, quantity)
            /\ r.totalCost = Add(r.productCost, r.tariffCost)
            /\ Len(r.breakdown) = 2
            /\ Add(r.breakdown[1].amount, r.breakdown[2].amount) = r.totalCost]_vars

\* 3.00 a unit, 2 units, 10 %: 6.00 + 0.60
C2_Witness ==
    /\ sim.calculationResult # Null
    /\ sim.formData.tariffType = "percentage"
    /\ sim.calculationResult[1].productCost = Num(600)
    /\ sim.calculationResult[1].tariffCost = Num(60)
    /\ sim.calculationResult[1].totalCost = Num(660)

\* the input the claim C4 calls valid
SimInputValid(f) ==
    /\ f.product # "" /\ f.unit # "" /\ f.exportingFrom # "" /\ f.importingTo # ""
    /\ f.tariffRate # "" /\ f.quantity # "" /\ f.customCost # ""
    /\ IsPositiveNumber(parseFloat(f.quantity))
    /\ IsPositiveNumber(parseFloat(f.customCost))
    /\ IsNonNegativeNumber(parseFloat(f.tariffRate))

Authorized(req) ==
    /\ req.Authorization = <<"Bearer", session>>
    /\ req.credentials = "include"

\* C1: every request the client has sent to the backend, the CSV exports
\* among them, carries `Authorization: Bearer <token>` with the session's
\* token and is sent with credentials included.
C1_EveryRequestAuthorized == \A req \in net : Authorized(req)

\* the input the claim C3 calls valid
TariffInputValid(f) ==
    /\ f.product # "" /\ f.exportingFrom # "" /\ f.importingTo # "" /\ f.type # ""
    /\ f.rate # "" /\ f.effectiveDate # "" /\ f.expirationDate # ""
    /\ IsNonNegativeNumber(parseFloat(f.rate))
    /\ f.exportingFrom # f.importingTo

\* C3: handleAddTariff and handleUpdateTariff send their POST or PUT only
\* for a form whose seven fields are non-empty, whose rate parses to a
\* number >= 0 and whose two countries differ; for any other form they show
\* an alert, send nothing, and leave the form, the dialog flags, the edited
\* tariff and the three tariff lists as they were.
C3_TariffFormValidation ==
    [][/\ ((TdtHandleAddTariff \/ TdtHandleUpdateTariff) /\ ~TariffInputValid(tdt.newTariff))
            => /\ tdt'.alertDialog.open
               /\ net' = net
               /\ tdt'.newTariff = tdt.newTariff
               /\ tdt'.isDialogOpen = tdt.isDialogOpen
               /\ tdt'.isEditDialogOpen = tdt.isEditDialogOpen
               /\ tdt'.editingTariff = tdt.editingTariff
               /\ tdt'.globalTariffs = tdt.globalTariffs
               /\ tdt'.modifiedGlobalTariffs = tdt.modifiedGlobalTariffs
               /\ tdt'.userTariffs = tdt.userTariffs
       /\ \A req \in net' \ net :
            req.src = "tdt" /\ req.method \in {"POST", "PUT"}
                => TariffInputValid(tdt.newTariff)]_vars

\* a complete form with a good rate and the same country twice was
\* submitted from the add dialog: the alert is up, the dialog still open,
\* the form as typed and nothing in flight
C3_Witness ==
    /\ mounted = "tdt"
    /\ tdt.alertDialog = [open |-> TRUE, title |-> "Invalid Country Pair"]
    /\ tdt.isDialogOpen
    /\ validateAllFieldsFilled(tdt.newTariff) /\ validateRate(tdt.newTariff)
    /\ tdt.newTariff.exportingFrom = tdt.newTariff.importingTo
    /\ net = {}

\* C8: when loading the currencies fails (the request throws, its answer is
\* not ok, or the list in it is empty or no array), the list of available
\* currencies becomes the static list USD, SGD, EUR, CNY, the selected
\* currency stays as it was (USD if it was unset) and the error banner is
\* left as it was; in the comparison panel and in the calculator form.
C8_CurrencyFallback ==
    [][/\ (CalcCurrenciesEmpty \/ CalcCurrenciesNotOk \/ CalcCurrenciesThrew)
            => /\ calc'.availableCurrencies = <<"USD", "SGD", "EUR", "CNY">>
               /\ calc'.formData.currency =
                     (IF calc.formData.currency # "" THEN calc.formData.currency ELSE "USD")
               /\ calc'.error = calc.error
       /\ (CmpCurrenciesEmpty \/ CmpCurrenciesNotOk \/ CmpCurrenciesThrew)
            => /\ cmp'.currencies = <<"USD", "SGD", "EUR", "CNY">>
               /\ cmp'.formData.currency =
                     (IF cmp.formData.currency # "" THEN cmp.formData.currency ELSE "USD")
               /\ cmp'.error = cmp.error]_vars

\* the calculator form's load has failed: the static list is in place, no
\* load is pending, the currency is the one it had and no error is shown
C8_Witness ==
    /\ mounted = "calc"
    /\ CalcReq("tariffs/currencies") = {}
    /\ calc.availableCurrencies = <<"USD", "SGD", "EUR", "CNY">>
    /\ calc.formData.currency = "USD"
    /\ calc.error = ""

\* C7: when the add-to-cart request of ResultsTable is answered with a
\* status that is not ok, exportError becomes, for 400, 'This calculation is
\* already in your export cart' if the message contains 'already in cart'
\* and 'Failed to add to cart: <message>' if not; for 404, 'Calculation not
\* found in history. Please calculate again.'; for any other status,
\* 'Failed to add to cart: <message>'.  No success message is set and
\* onAddToCart is not called.
C7_AddToCartErrors ==
    [][(RtAddNotOk \/ RtErrorRead) =>
          /\ rt'.successMessage = "" /\ rt'.timer = rt.timer
          /\ HomeCartCountRequest \notin net' \ net
          /\ home' = home
          /\ RtErrorRead =>
               LET status == rt.response[1].status
                   message == parseErrorResponse(rt.response[1])
               IN  /\ status = 400 /\ includesAlreadyInCart(message)
                        => rt'.exportError = "This calculation is already in your export cart"
                   /\ status = 400 /\ ~includesAlreadyInCart(message)
                        => rt'.exportError = "Failed to add to cart: " \o message
                   /\ status = 404
                        => rt'.exportError =
                              "Calculation not found in history. Please calculate again."
                   /\ status \notin {400, 404}
                        => rt'.exportError = "Failed to add to cart: " \o message]_vars

\* a 404 has been handled
C7_Witness ==
    /\ mounted = "rt"
    /\ rt.pc = "idle"
    /\ rt.exportError = "Calculation not found in history. Please calculate again."
    /\ rt.successMessage = ""

\* the steps in which the backend's answer to an export-cart operation is a
\* failure status, or its request throws
CartFailureStep ==
    \/ CartItemNotOk \/ CartItemThrew
    \/ CartClearNotOk \/ CartClearThrew
    \/ CartDownloadNotOk \/ CartDownloadThrew

\* C10: an export-cart operation of the user's (add the selected history
\* items, delete the selected items, clear the cart, download the CSV) that
\* ends on a failed request, answered with a failure status or thrown, ends
\* with a non-empty error banner; a batch whose every request fails included.
C10_CartFailureShowsError ==
    [][CartFailureStep /\ cart'.pc = "idle" => cart'.error # ""]_vars

\* the input the claim C5 calls valid
CalcInputValid(f) ==
    /\ f.product # "" /\ f.exportingFrom # "" /\ f.importingTo # ""
    /\ f.quantity # "" /\ f.customCost # ""
    /\ IsPositiveNumber(parseFloat(f.quantity))
    /\ IsPositiveNumber(parseFloat(f.customCost))

C6_EqualCountriesRejected ==
    [][/\ (CalcHandleSubmit /\ calc.formData.exportingFrom = calc.formData.importingTo)
            => /\ calc'.error # ""
               /\ net' = net
       /\ (SimHandleSubmit /\ sim.formData.exportingFrom = sim.formData.importingTo)
            => /\ sim'.error # ""
               /\ net' = net
               /\ sim'.result = Null]_vars

\* the steps in which a request of the calculators or of the table's load
\* has failed: it threw, or its answer is not ok or is a refusal
RequestFailed ==
    \/ SimSaveNotOk \/ SimSaveThrew \/ SimHistoryNotOk \/ SimHistoryThrew
    \/ CalcProductsThrew \/ CalcCountriesThrew
    \/ CalcCurrenciesEmpty \/ CalcCurrenciesNotOk \/ CalcCurrenciesThrew
    \/ CalcTariffThrew \/ CalcTariffNotOk \/ CalcTariffRejected
    \/ CalcSaveNotOk \/ CalcSaveThrew \/ CalcHistoryNotOk \/ CalcHistoryThrew
    \/ TdtGlobalNotOk \/ TdtGlobalThrew \/ TdtModifiedNotOk \/ TdtModifiedThrew
    \/ TdtUserNotOk \/ TdtUserThrew \/ TdtOptionsNotOk \/ TdtOptionsThrew

\* what the handler sends next whether or not the request failed: after the
\* admin's load of the modified tariffs, the load of countries and products
SentAnyway == IF TdtModifiedNotOk THEN TdtOptionRequests ELSE {}

HistoryLookup ==
    IF SimSaveNotOk THEN {fetch("sim", "GET", "tariff/history")}
    ELSE IF CalcSaveNotOk \/ CalcSaveThrew THEN {fetch("calc", "GET", "tariff/history")}
    ELSE {}

C11_HistoryExcludesCart ==
    (mounted = "cart" /\ cart.pc = "idle" /\ CartReq("export-cart") = {}
        /\ CartReq("tariff/history") = {})
    => Range(cart.historyItems) \cap Range(cart.cartItems) = {}

\* a handler of the cart's view that changed the cart is done: its reloads
\* are answered
CartChangeDone == cart.pc = "loadHistory" /\ cart'.pc = "idle"

\* C12: after a successful change of the export cart made through the UI
\* (an add from the dashboard's ResultsTable, an add from the simulator's
\* ResultsTable, an add from the history, a delete of the selected items, a
\* clear), the cart count of the header is fetched again, and the count an
\* answered fetch sets is the length of the cart the backend answered with.
C12_CartCountRefetched ==
    [][/\ RtAddOk => HomeCartCountRequest \in net'
       /\ CartChangeDone => HomeCartCountRequest \in net'
       /\ HomeCartCountOk => \E cartData \in ServerCartItems :
                                 home'.cartCount = Len(cartData)]_vars

\* C13: ResultsTable sends POST export-cart/add/<id> only for results that
\* are not null and carry a non-empty calculationId; for any other results
\* it sets 'No calculation data available' or 'Calculation ID not found.
\* Please calculate again.', sends nothing and does not call onAddToCart;
\* onAddToCart (Home's fetchCartCount) runs only after an ok answer.
C13_AddToCartNeedsId ==
    [][/\ RtHandleAddingExport =>
            IF RtResults = Null
            THEN rt'.exportError = "No calculation data available" /\ net' = net
            ELSE IF getCalculationId(RtResults[1]) = ""
            THEN /\ rt'.exportError = "Calculation ID not found. Please calculate again."
                 /\ net' = net
            ELSE net' \ net = {fetch("rt", "POST", "export-cart/add/"
                                                   \o getCalculationId(RtResults[1]))}
       /\ \A req \in net' \ net :
            req.src = "rt" => RtResults # Null /\ getCalculationId(RtResults[1]) # ""
       /\ HomeCartCountRequest \in net' \ net => RtAddOk]_vars

\* results without an id were submitted: the message is up and nothing was
\* sent
C13_Witness ==
    /\ mounted = "rt"
    /\ getCalculationId(home.calculationResults[1]) = ""
    /\ rt.exportError = "Calculation ID not found. Please calculate again."
    /\ rt.pc = "idle"
    /\ net = {}

\* the (product, exportingFrom, importingTo) key of a tariff, the keys of a
\* list, the places of a key in a list, and the last of some places
Key(tariff) == <<tariff.product, tariff.exportingFrom, tariff.importingTo>>
Keys(tariffs) == {Key(tariffs[i]) : i \in DOMAIN tariffs}
WithKey(tariffs, k) == {i \in DOMAIN tariffs : Key(tariffs[i]) = k}
Last(places) == CHOOSE i \in places : \A j \in places : i >= j
DistinctKeys(tariffs) ==
    \A i, j \in DOMAIN tariffs : Key(tariffs[i]) = Key(tariffs[j]) => i = j

\* global tariffs whose key is not in the modified list appear unchanged
UnmodifiedKept(globalTariffs, modified, merged) ==
    \A i \in DOMAIN globalTariffs :
        Key(globalTariffs[i]) \notin Keys(modified)
            => i \in DOMAIN merged /\ merged[i] = globalTariffs[i]

\* C14 as stated: the displayed list has, for each key of the modified list,
\* exactly one entry with that key, the last modified tariff of the key;
\* global tariffs of other keys appear unchanged; and the merge of a global
\* list of distinct keys has distinct keys.
C14_MergeReplaces ==
    LET globalTariffs == tdt.globalTariffs
        modified == tdt.modifiedGlobalTariffs
        merged == mergeTariffs(tdt)
    IN  /\ \A k \in Keys(modified) :
              /\ Cardinality(WithKey(merged, k)) = 1
              /\ \A i \in WithKey(merged, k) : merged[i] = modified[Last(WithKey(modified, k))]
        /\ UnmodifiedKept(globalTariffs, modified, merged)
        /\ DistinctKeys(globalTariffs) => DistinctKeys(merged)

\* the paths under tariff-definitions/modified
ModifiedPaths ==
    {"tariff-definitions/modified"}
    \cup {"tariff-definitions/modified/" \o id :
              id \in {"global-1", "user-1", "admin-modified-1", "admin-modified-2"}}

\* C15: in simulator mode no step of the table (an add, an edit and a
\* delete among them) sends a request to tariff-definitions/modified or
\* changes globalTariffs or modifiedGlobalTariffs, whatever the user's role
\* and the id of the tariff.
C15_SimulatorLeavesGlobal ==
    [][tdt.simulatorMode =>
          /\ \A req \in net' \ net : req.path \notin ModifiedPaths
          /\ tdt'.globalTariffs = tdt.globalTariffs
          /\ tdt'.modifiedGlobalTariffs = tdt.modifiedGlobalTariffs]_vars

\* an admin in simulator mode has updated a tariff whose id carries the
\* admin-modified prefix: the PUT went to tariff-definitions/user and the
\* reload of the user tariffs is in flight
C15_Witness ==
    /\ mounted = "tdt" /\ tdt.simulatorMode /\ tdt.userRole = "admin"
    /\ tdt.editingTariff # Null /\ tdt.editingTariff[1].id = "admin-modified-1"
    /\ TdtFetch("GET", "tariff-definitions/user", "updateReload", TRUE) \in net
    /\ tdt.globalTariffs = <<>> /\ tdt.modifiedGlobalTariffs = <<>>

\* C16: a user who is no admin, viewing the global tariff definitions
\* (simulatorMode false), can only view: no step of the table sends a POST,
\* a PUT or a DELETE.
C16_GeneralUserOnlyViews ==
    [][(tdt.userRole # "admin" /\ ~tdt.simulatorMode) =>
          \A req \in net' \ net : req.src = "tdt" => req.method = "GET"]_vars

\* such a user has the global tariffs on display and has pressed Export CSV
C16_Witness ==
    /\ mounted = "tdt" /\ tdt.userRole # "admin" /\ ~tdt.simulatorMode
    /\ ~tdt.isLoading /\ Len(mergeTariffs(tdt)) > 0
    /\ net = {navigate("tdt", "tariff-definitions/export")}

\* C17: the tariff-trends view sends a request to /tariff-trends only for
\* filters with an import country, an export country and a product whose three
\* selection sizes multiply to at most MAX_LINES; a filter change with any
\* other filters sets an error, empties the chart data and sends nothing.
FiltersAccepted(f) ==
    /\ Len(f.importCountries) >= 1
    /\ Len(f.exportCountries) >= 1
    /\ Len(f.products) >= 1
    /\ Len(f.importCountries) * Len(f.exportCountries) * Len(f.products) <= 10

C17_TrendsRequestNeedsFilters ==
    [][/\ \A req \in net' \ net :
            req.path = "tariff-trends" => req.k = trd'.filters /\ FiltersAccepted(req.k)
       /\ (TrdHandleFilterChange /\ ~FiltersAccepted(trd'.filters)) =>
            /\ trd'.error # Null
            /\ trd'.chartData = <<>>
            /\ net' \subseteq net]_vars

\* a change to more than MAX_LINES lines was turned down while the request of
\* an earlier change to exactly MAX_LINES lines is still unanswered
C17_Witness ==
    /\ trd.error = Some(<<"Too many combinations", 12>>)
    /\ trd.chartData = <<>>
    /\ \E req \in net : req.path = "tariff-trends" /\ totalLines(req.k) = 10

\* C18: TariffComparisonPanel sends POST /tariffs/compare only for a form with
\* a product, an exporting country, an importing country, a quantity above 0
\* and a custom unit cost that is empty or above 0; a submit of any other form
\* sets an error, keeps the previous result and leaves submitting false.
Positive(text) == ~IsNaN(parseFloat(text)) /\ Val(parseFloat(text)) > 0

FormComplete(f) ==
    /\ f.product # ""
    /\ f.exportingFrom # ""
    /\ Len(f.importingToCountries) >= 1
    /\ Positive(f.quantity)
    /\ f.customCost = "" \/ Positive(f.customCost)

C18_CompareNeedsValidForm ==
    [][/\ \A req \in net' \ net :
            req.path = "tariffs/compare" => req.method = "POST" /\ FormComplete(cmp.formData)
       /\ (CmpHandleSubmit /\ ~FormComplete(cmp.formData)) =>
            /\ cmp'.error # Null
            /\ cmp'.result = cmp.result
            /\ ~cmp'.submitting
            /\ net' = net]_vars

\* a comparison was shown, then a submit with a negative custom unit cost was
\* turned down and the comparison is still shown
C18_Witness ==
    /\ cmp.result # Null
    /\ cmp.formData.customCost = "-1"
    /\ cmp.error = Some("Custom unit cost must be greater than 0.")
    /\ ~cmp.submitting
    /\ CmpReq("tariffs/compare") = {}

\* C19: the calculationId the simulator and the calculator form attach to a
\* result is the id of the history record that calculation's save created, or
\* a fresh local id, or none: it is never the id of a record the history held
\* before, also when the save fails.
EarlierIds == LatestIds \ {""}

C19_IdOfSameCalculation ==
    /\ sim.calculationResult # Null => sim.calculationResult[1].calculationId \notin EarlierIds
    /\ home.calculationResults # Null =>
          home.calculationResults[1].data.calculationId \notin EarlierIds

\* C20: every result handleCalculationComplete stores gives the dashboard's
\* ResultsTable a non-empty getCalculationId, so its validateCalculationData
\* never answers 'Calculation ID not found', also when the result came without
\* a calculationId and the page generated one.
C20_DashboardResultHasId ==
    home.calculationResults # Null =>
        /\ getCalculationId(home.calculationResults[1]) # ""
        /\ validateCalculationData(home.calculationResults) = ""

\* C21: the rows shown are exactly the tariffs of the rendered list that match
\* every non-empty filter, in the order of the list; choosing 'all' in one
\* filter empties that filter and leaves the other two as they were; after
\* clearFilters the rows shown are the whole list.
FilterFields == {"product", "exportingFrom", "importingTo"}

MatchesEvery(filters, tariff) ==
    \A field \in FilterFields : filters[field] = "" \/ tariff[field] = filters[field]

\* rows is list restricted to its matching positions, order kept
IsFiltered(rows, list, filters) ==
    LET kept == {i \in DOMAIN list : MatchesEvery(filters, list[i])}
    IN /\ Len(rows) = Cardinality(kept)
       /\ \A i \in kept : rows[Cardinality({j \in kept : j <= i})] = list[i]

C21_RowsAreFilteredList ==
    [][/\ IsFiltered(displayTariffs(tdt), RenderedTariffs(tdt), tdt.filters)
       /\ IsFiltered(displayTariffs(tdt'), RenderedTariffs(tdt'), tdt'.filters)
       /\ \A field \in FilterFields :
             (TdtShown /\ tdt' = handleFilterChange(tdt, field, "all")) =>
                /\ tdt'.filters[field] = ""
                /\ \A other \in FilterFields \ {field} :
                      tdt'.filters[other] = tdt.filters[other]
       /\ TdtClearFilters => displayTariffs(tdt') = RenderedTariffs(tdt')]_vars

\* three tariffs are listed and two filters are set: the first and the third
\* tariff are shown, the second is hidden
C21_Witness ==
    /\ Len(RenderedTariffs(tdt)) = 3
    /\ tdt.filters.exportingFrom = "SG" /\ tdt.filters.importingTo = "MY"
    /\ tdt.filters.product = ""
    /\ displayTariffs(tdt) = <<RenderedTariffs(tdt)[1], RenderedTariffs(tdt)[3]>>

====
